---- MODULE Spec2Model ----
(***************************************************************************)
(* The chat relay server of src/async_chat/server.py as a state machine:   *)
(* per-connection reader and writer tasks, the single dispatcher task, the *)
(* bounded inbound event queue and the bounded per-connection outbound     *)
(* queues, and the room, name and file-transfer registries.                *)
(*                                                                         *)
(* One step of the model is the run of one asyncio task between two        *)
(* points where it really suspends.  `await q.put(x)` on a queue that has  *)
(* room, and `readline()` on a stream at end-of-file, return without       *)
(* yielding to the event loop, so they do not end a step.                  *)
(*                                                                         *)
(* Strings are run-length encoded: a string is a sequence of runs          *)
(* [ch |-> c, n |-> k] (k > 0, adjacent runs differ in ch), so that a      *)
(* 2001-character text is one run.  None and "" are both <<>>: the code    *)
(* only tests c.name and c.room for truthiness or compares them with       *)
(* non-empty strings.  The "ts" field of outbound events (wall-clock time) *)
(* is left out.                                                            *)
(*                                                                         *)
(* Specifications: Spec runs the server from its construction, SpecStop   *)
(* the same with ChatServer.stop; SpecNames has two connections saying     *)
(* hello; SpecChat, SpecRooms, SpecOrder, SpecFiles and SpecLoad start     *)
(* with three connections that have said hello and read all their output   *)
(* (SpecFiles with a transfer started), the last one with weak fairness of *)
(* the server's tasks.                                                     *)
(* SpecJoin, SpecHello, SpecStart, SpecTransfer, SpecMsg and SpecType are  *)
(* small ones for the checks of one handler each, and SpecLong has an      *)
(* oversize line among the lines sent. SpecPm, SpecCast, SpecFull,         *)
(* SpecList and SpecFrame send pms, broadcasts, more events than the       *)
(* queue holds, queries, and events of every type.                         *)
(***************************************************************************)
EXTENDS Integers, Sequences, FiniteSets, TLC

\* ------------------------------------------------------------------ bounds
\* capacity of Client.out_q (maxsize=200 in the code, small here)
OutQMax == 2
\* capacity of ChatServer._events (maxsize=5000 in the code, small here)
EventsMax == 3
\* number of file_start accepted in one run (uuid4 ids are drawn from Digits)
MaxFiles == 2

\* --------------------------------------------------------------- constants
MAX_LINE_BYTES == 262144
STREAM_LIMIT == 262144
MaxNameLen == 32
MaxRoomLen == 40
MaxTextLen == 2000
MaxFilenameLen == 200
MaxFileSize == 209715200
MaxChunkLen == 200000

\* ----------------------------------------------------------------- strings
Run(c, k) == <<[ch |-> c, n |-> k]>>
Lit(c) == Run(c, 1)
None == <<>>

WhiteSpace == {" ", "\n", "\t"}

RECURSIVE StrLen(_)
StrLen(s) == IF s = <<>> THEN 0 ELSE Head(s).n + StrLen(Tail(s))

\* s1 + s2, keeping the encoding canonical
Concat(s1, s2) ==
    IF s1 = <<>> THEN s2
    ELSE IF s2 = <<>> THEN s1
    ELSE IF s1[Len(s1)].ch = s2[1].ch
         THEN SubSeq(s1, 1, Len(s1) - 1)
              \o Run(s2[1].ch, s1[Len(s1)].n + s2[1].n) \o Tail(s2)
         ELSE s1 \o s2

Front(s) == SubSeq(s, 1, Len(s) - 1)

RECURSIVE LStripSet(_, _)
LStripSet(s, chars) ==
    IF s # <<>> /\ Head(s).ch \in chars THEN LStripSet(Tail(s), chars) ELSE s

RECURSIVE RStripSet(_, _)
RStripSet(s, chars) ==
    IF s # <<>> /\ s[Len(s)].ch \in chars THEN RStripSet(Front(s), chars) ELSE s

\* str.strip()
Strip(s) == RStripSet(LStripSet(s, WhiteSpace), WhiteSpace)

\* str.rstrip("\n")
RStripNL(s) == RStripSet(s, {"\n"})

\* any(ch.isspace() for ch in s)
HasSpace(s) == \E i \in 1..Len(s) : s[i].ch \in WhiteSpace

\* s[:k]
RECURSIVE Take(_, _)
Take(s, k) ==
    IF s = <<>> \/ k <= 0 THEN <<>>
    ELSE IF Head(s).n >= k THEN Run(Head(s).ch, k)
    ELSE <<Head(s)>> \o Take(Tail(s), k - Head(s).n)

\* ------------------------------------------------------------- JSON values
JNum(v) == [k |-> "num", v |-> v]
JStr(s) == [k |-> "str", s |-> s]
\* the number whole.tenths, whole >= 0 and tenths in 1..9
JFrac(whole, tenths) == [k |-> "frac", whole |-> whole, tenths |-> tenths]

Digits == <<"1", "2", "3", "4", "5", "6", "7", "8", "9">>
DigitVal(c) == IF c = "0" THEN 0 ELSE CHOOSE d \in 1..9 : Digits[d] = c
IsDigit(c) == c = "0" \/ \E d \in 1..9 : Digits[d] = c

RECURSIVE Pow10(_)
Pow10(k) == IF k = 0 THEN 1 ELSE 10 * Pow10(k - 1)

RECURSIVE Repeat(_, _)
Repeat(d, k) == IF k = 0 THEN 0 ELSE 10 * Repeat(d, k - 1) + d

RECURSIVE DecVal(_, _)
DecVal(s, acc) ==
    IF s = <<>> THEN acc
    ELSE DecVal(Tail(s),
                acc * Pow10(Head(s).n) + Repeat(DigitVal(Head(s).ch), Head(s).n))

\* int(x or 0) for a JSON number or string: [ok |-> FALSE] is ValueError
IntOrZero(j) ==
    IF j.k = "num" THEN [ok |-> TRUE, v |-> j.v]
    ELSE IF j.k = "frac" THEN [ok |-> TRUE, v |-> j.whole]
    ELSE IF j.s = <<>> THEN [ok |-> TRUE, v |-> 0]
    ELSE LET t == Strip(j.s)
             neg == t # <<>> /\ t[1].ch = "-" /\ t[1].n = 1
             body == IF neg THEN Tail(t) ELSE t
         IN  IF body # <<>> /\ \A i \in 1..Len(body) : IsDigit(body[i].ch)
             THEN [ok |-> TRUE,
                   v |-> IF neg THEN 0 - DecVal(body, 0) ELSE DecVal(body, 0)]
             ELSE [ok |-> FALSE, v |-> 0]

B64Alphabet == {"A", "Q", "a", "x", "0", "+", "/"} \cup {Digits[d] : d \in 1..9}

\* base64.b64decode(data.encode("ascii"), validate=True) does not raise:
\* only alphabet characters, at most two "=" and only at the end, length a
\* multiple of four
B64Valid(s) ==
    LET body == RStripSet(s, {"="})
        pad == StrLen(s) - StrLen(body)
    IN  /\ \A i \in 1..Len(body) : body[i].ch \in B64Alphabet
        /\ pad <= 2
        /\ StrLen(s) % 4 = 0

\* m.get(f, default)
Get(m, f, default) == IF f \in DOMAIN m THEN m[f] ELSE default

\* code points of the characters the model's strings are made of
CharCode(c) ==
    CASE c = "\t" -> 9   [] c = "\n" -> 10  [] c = " " -> 32  [] c = "+" -> 43
      [] c = "-" -> 45   [] c = "/" -> 47   [] c = "0" -> 48  [] c = "=" -> 61
      [] c = "A" -> 65   [] c = "Q" -> 81   [] c = "a" -> 97  [] c = "b" -> 98
      [] c = "c" -> 99   [] c = "d" -> 100 [] c = "f" -> 102
      [] c = "l" -> 108  [] c = "r" -> 114 [] c = "x" -> 120
      [] OTHER -> 48 + DigitVal(c)

\* s1 < s2 in Python's string order
RECURSIVE StrLess(_, _)
StrLess(s1, s2) ==
    IF s2 = <<>> THEN FALSE
    ELSE IF s1 = <<>> THEN TRUE
    ELSE IF Head(s1).ch # Head(s2).ch
         THEN CharCode(Head(s1).ch) < CharCode(Head(s2).ch)
    ELSE IF Head(s1).n = Head(s2).n THEN StrLess(Tail(s1), Tail(s2))
    ELSE IF Head(s1).n < Head(s2).n
         THEN StrLess(Tail(s1),
                      Run(Head(s2).ch, Head(s2).n - Head(s1).n) \o Tail(s2))
    ELSE StrLess(Run(Head(s1).ch, Head(s1).n - Head(s2).n) \o Tail(s1),
                 Tail(s2))

\* sorted(xs) for a list of strings
RECURSIVE Insert(_, _)
Insert(x, xs) ==
    IF xs = <<>> THEN <<x>>
    ELSE IF StrLess(Head(xs), x) THEN <<Head(xs)>> \o Insert(x, Tail(xs))
    ELSE <<x>> \o xs

RECURSIVE Sorted(_)
Sorted(xs) == IF xs = <<>> THEN <<>> ELSE Insert(Head(xs), Sorted(Tail(xs)))

RECURSIVE SetToSeq(_)
SetToSeq(S) ==
    IF S = {} THEN <<>>
    ELSE LET x == CHOOSE y \in S : TRUE IN <<x>> \o SetToSeq(S \ {x})

\* ------------------------------------------------------------ dictionaries
EmptyDict == [x \in {} |-> x]
DictSet(d, key, v) == [x \in DOMAIN d \cup {key} |-> IF x = key THEN v ELSE d[x]]
DictDel(d, key) == [x \in DOMAIN d \ {key} |-> d[x]]

\* ------------------------------------------------------------- connections
Conns == {"A", "B", "C"}
NoConn == "none"
DEFAULT_ROOM == Lit("l")

\* ------------------------------------------------------------------- state
VARIABLES
    st,               \* per connection: "new", "open" (_on_connect waiting), "closed" (_cleanup_client ran)
    rd,               \* per connection: the _read_loop task
    wr,               \* per connection: the _write_loop task
    peer,             \* per connection: what the remote end is doing
    c_name,           \* Client.name
    c_room,           \* Client.room
    rooms,            \* ChatServer._rooms
    clients_by_name,  \* ChatServer._clients_by_name
    files,            \* ChatServer._files
    nfid,             \* number of uuid4 ids drawn so far
    out_q,            \* Client.out_q
    events,           \* ChatServer._events
    disp,             \* the _dispatcher task
    started_by,       \* history: the connection whose file_start drew each id
    sent,             \* history: number of lines the peers have sent since the initial state
    srv               \* how far ChatServer.stop has come

vars == <<st, rd, wr, peer, c_name, c_room, rooms, clients_by_name, files,
          nfid, out_q, events, disp, started_by, sent, srv>>

\* -------------------------------------------------------- outbound events
Text(fmt, a, b) == <<fmt, a, b>>
Err(fmt) == [type |-> "error", text |-> Text(fmt, None, None)]
ErrArg(fmt, a) == [type |-> "error", text |-> Text(fmt, a, None)]
Info2(fmt, a, b) == [type |-> "info", text |-> Text(fmt, a, b)]
Info(fmt, a) == Info2(fmt, a, None)

\* the server state a handler reads and writes
Cur == [name |-> c_name, room |-> c_room, rooms |-> rooms,
        reg |-> clients_by_name, files |-> files, nfid |-> nfid,
        q |-> out_q, disp |-> disp, by |-> started_by]

Idle == [at |-> "get"]
End == [op |-> "end"]

Members(S, room) == IF room \in DOMAIN S.rooms THEN S.rooms[room] ELSE {}

\* cl.out_q.put_nowait(payload), QueueFull swallowed
PutNowaitOrDrop(q, payload) ==
    IF Len(q) < OutQMax THEN Append(q, payload) ELSE q

\* the bug of a broadcast that reaches the connections of every room
broadcastAll(S, room, payload, exclude) ==
    [S EXCEPT !.q = [cl \in Conns |->
        IF cl # exclude THEN PutNowaitOrDrop(S.q[cl], payload) ELSE S.q[cl]]]

\* the bug of a broadcast that does not leave out the excluded connection
broadcast_unexcluded(S, room, payload, exclude) ==
    [S EXCEPT !.q = [cl \in Conns |->
        IF cl \in Members(S, room)
        THEN PutNowaitOrDrop(S.q[cl], payload)
        ELSE S.q[cl]]]

\* the bug of a broadcast that gives up at a member whose queue is full
broadcast_until_full(S, room, payload, exclude) ==
    IF \E cl \in Members(S, room) \ {exclude} : Len(S.q[cl]) >= OutQMax
    THEN S
    ELSE [S EXCEPT !.q = [cl \in Conns |->
            IF cl \in Members(S, room) /\ cl # exclude
            THEN Append(S.q[cl], payload)
            ELSE S.q[cl]]]

\* ChatServer._broadcast
broadcast(S, room, payload, exclude) ==
    [S EXCEPT !.q = [cl \in Conns |->
        IF cl \in Members(S, room) /\ cl # exclude
        THEN PutNowaitOrDrop(S.q[cl], payload)
        ELSE S.q[cl]]]

\* the bug of a connection that is never taken out of a member set
RoomDiscardNot(S, room, c) == S

\* self._rooms.get(room, set()).discard(c)
RoomDiscard(S, room, c) ==
    IF room \in DOMAIN S.rooms
    THEN [S EXCEPT !.rooms = DictSet(S.rooms, room, S.rooms[room] \ {c})]
    ELSE S

\* the bug of a room that is kept in the room map when its last member left
RoomKeepEmpty(S, room) == S

\* if room in self._rooms and not self._rooms[room]: del self._rooms[room]
RoomDropIfEmpty(S, room) ==
    IF room \in DOMAIN S.rooms /\ S.rooms[room] = {}
    THEN [S EXCEPT !.rooms = DictDel(S.rooms, room)]
    ELSE S

RECURSIVE Put(_, _, _, _)
RECURSIVE Cont(_, _)
RECURSIVE join_room(_, _, _)

\* `await target.out_q.put(payload)` inside the dispatcher, followed by the
\* rest of the handler, k.  With room in the queue the put returns at once;
\* otherwise the dispatcher task suspends here.
Put(S, target, payload, k) ==
    IF Len(S.q[target]) < OutQMax
    THEN Cont([S EXCEPT !.q[target] = Append(@, payload)], k)
    ELSE [S EXCEPT !.disp = [at |-> "put", target |-> target,
                             payload |-> payload, k |-> k]]

\* the bug of a join that leaves the connection in its old room's member set
join_room_keep_old(S, c, room) ==
    LET old == S.room[c] IN
    IF old = room
    THEN Put(S, c, Info("You are already in room", room), End)
    ELSE LET S1 == IF old # None
                   THEN broadcast(S, old, Info2("left room", S.name[c], old), c)
                   ELSE S
             S2 == [S1 EXCEPT !.room[c] = room,
                              !.rooms = DictSet(S1.rooms, room,
                                                Members(S1, room) \cup {c})]
         IN  Put(S2, c, Info("You joined room", room),
                 [op |-> "joined", c |-> c, room |-> room])

\* the bug of a join that does not look at the connection's present room
join_room_renotify(S, c, room) ==
    LET old == S.room[c]
        S1 == IF old # None
              THEN RoomDropIfEmpty(
                       broadcast(RoomDiscard(S, old, c), old,
                                 Info2("left room", S.name[c], old), c),
                       old)
              ELSE S
        S2 == [S1 EXCEPT !.room[c] = room,
                         !.rooms = DictSet(S1.rooms, room,
                                           Members(S1, room) \cup {c})]
    IN  Put(S2, c, Info("You joined room", room),
            [op |-> "joined", c |-> c, room |-> room])

\* ChatServer._join_room
join_room(S, c, room) ==
    LET old == S.room[c] IN
    IF old = room
    THEN Put(S, c, Info("You are already in room", room), End)
    ELSE LET S1 == IF old # None
                   THEN RoomDropIfEmpty(
                            broadcast(RoomDiscard(S, old, c), old,
                                      Info2("left room", S.name[c], old), c),
                            old)
                   ELSE S
             S2 == [S1 EXCEPT !.room[c] = room,
                              !.rooms = DictSet(S1.rooms, room,
                                                Members(S1, room) \cup {c})]
         IN  Put(S2, c, Info("You joined room", room),
                 [op |-> "joined", c |-> c, room |-> room])

\* what a handler still does after an `await ... put(...)` has returned
Cont(S, k) ==
    CASE k.op = "end" -> [S EXCEPT !.disp = Idle]
      [] k.op = "autojoin" ->
            IF S.room[k.c] = None
            THEN join_room(S, k.c, DEFAULT_ROOM)
            ELSE [S EXCEPT !.disp = Idle]
      [] k.op = "joined" ->
            [broadcast(S, k.room, Info2("joined room", S.name[k.c], k.room), k.c)
                EXCEPT !.disp = Idle]
      [] k.op = "file_start" ->
            [broadcast(S, S.room[k.c], k.payload, k.c) EXCEPT !.disp = Idle]
      [] k.op = "pm_sent" ->
            Put(S, k.c, Info("PM sent ->", k.to), End)

\* the bug of a hello that never finds the name taken
NameTakenNever(S, c, name) == FALSE

\* name in self._clients_by_name and self._clients_by_name[name] is not c
NameTaken(S, c, name) == name \in DOMAIN S.reg /\ S.reg[name] # c

\* the bug of a rename that leaves the old entry in the registry
ReleaseNameNot(S, c) == S.reg

\* if c.name and c.name in self._clients_by_name
\*    and self._clients_by_name[c.name] is c: del self._clients_by_name[c.name]
ReleaseName(S, c) ==
    IF S.name[c] # None /\ S.name[c] \in DOMAIN S.reg /\ S.reg[S.name[c]] = c
    THEN DictDel(S.reg, S.name[c])
    ELSE S.reg

\* the bug of a hello that leaves the connection without a room
handle_hello_no_autojoin(S, c, m) ==
    LET name == Strip(Get(m, "name", None)) IN
    IF name = <<>> \/ StrLen(name) > MaxNameLen \/ HasSpace(name)
    THEN Put(S, c, Err("Invalid name (max 32 chars, no spaces)"), End)
    ELSE IF NameTaken(S, c, name)
    THEN Put(S, c, Err("Name already taken"), End)
    ELSE LET reg1 == ReleaseName(S, c)
             S1 == [S EXCEPT !.name[c] = name,
                             !.reg = DictSet(reg1, name, c)]
         IN  Put(S1, c, Info("You are logged in as", name), End)

\* the bug of a hello that takes any name nobody else holds
handle_hello_unchecked(S, c, m) ==
    LET name == Strip(Get(m, "name", None)) IN
    IF NameTaken(S, c, name)
    THEN Put(S, c, Err("Name already taken"), End)
    ELSE LET reg1 == ReleaseName(S, c)
             S1 == [S EXCEPT !.name[c] = name,
                             !.reg = DictSet(reg1, name, c)]
         IN  Put(S1, c, Info("You are logged in as", name),
                 [op |-> "autojoin", c |-> c])

\* ChatServer._handle_hello
handle_hello(S, c, m) ==
    LET name == Strip(Get(m, "name", None)) IN
    IF name = <<>> \/ StrLen(name) > MaxNameLen \/ HasSpace(name)
    THEN Put(S, c, Err("Invalid name (max 32 chars, no spaces)"), End)
    ELSE IF NameTaken(S, c, name)
    THEN Put(S, c, Err("Name already taken"), End)
    ELSE LET reg1 == ReleaseName(S, c)
             S1 == [S EXCEPT !.name[c] = name,
                             !.reg = DictSet(reg1, name, c)]
         IN  Put(S1, c, Info("You are logged in as", name),
                 [op |-> "autojoin", c |-> c])

\* the bug of a join that takes any room name
handle_join_unchecked(S, c, m) ==
    IF S.name[c] = None
    THEN Put(S, c, Err("Send hello first"), End)
    ELSE join_room(S, c, Strip(Get(m, "room", None)))

\* ChatServer._handle_join
handle_join(S, c, m) ==
    IF S.name[c] = None
    THEN Put(S, c, Err("Send hello first"), End)
    ELSE LET room == Strip(Get(m, "room", None)) IN
         IF room = <<>> \/ StrLen(room) > MaxRoomLen
         THEN Put(S, c, Err("Invalid room name"), End)
         ELSE join_room(S, c, room)

\* the bug of a msg handler that does not ask for a name
handle_msg_anonymous(S, c, m) ==
    IF S.room[c] = None
    THEN Put(S, c, Err("Join a room first"), End)
    ELSE LET text == RStripNL(Get(m, "text", None)) IN
         IF text = <<>>
         THEN [S EXCEPT !.disp = Idle]
         ELSE IF StrLen(text) > MaxTextLen
         THEN Put(S, c, Err("Message too long"), End)
         ELSE [broadcast(S, S.room[c],
                         [type |-> "msg", room |-> S.room[c],
                          from |-> S.name[c], text |-> Text("", text, None)],
                         NoConn)
                 EXCEPT !.disp = Idle]

\* ChatServer._handle_msg
handle_msg(S, c, m) ==
    IF S.name[c] = None
    THEN Put(S, c, Err("Send hello first"), End)
    ELSE IF S.room[c] = None
    THEN Put(S, c, Err("Join a room first"), End)
    ELSE LET text == RStripNL(Get(m, "text", None)) IN
         IF text = <<>>
         THEN [S EXCEPT !.disp = Idle]
         ELSE IF StrLen(text) > MaxTextLen
         THEN Put(S, c, Err("Message too long"), End)
         ELSE [broadcast(S, S.room[c],
                         [type |-> "msg", room |-> S.room[c],
                          from |-> S.name[c], text |-> Text("", text, None)],
                         NoConn)
                 EXCEPT !.disp = Idle]

\* the bug of a pm handed to everybody in the addressee's room
handle_pm_to_room(S, c, m) ==
    IF S.name[c] = None
    THEN Put(S, c, Err("Send hello first"), End)
    ELSE LET to == Strip(Get(m, "to", None))
             text == RStripNL(Get(m, "text", None))
         IN  IF to = <<>> \/ text = <<>>
             THEN Put(S, c, Err("PM format: to + text"), End)
             ELSE IF to \notin DOMAIN S.reg
             THEN Put(S, c, ErrArg("User not found", to), End)
             ELSE Cont(broadcast(S, S.room[S.reg[to]],
                                 [type |-> "pm", from |-> S.name[c],
                                  text |-> Text("", text, None)], NoConn),
                       [op |-> "pm_sent", c |-> c, to |-> to])

\* ChatServer._handle_pm
handle_pm(S, c, m) ==
    IF S.name[c] = None
    THEN Put(S, c, Err("Send hello first"), End)
    ELSE LET to == Strip(Get(m, "to", None))
             text == RStripNL(Get(m, "text", None))
         IN  IF to = <<>> \/ text = <<>>
             THEN Put(S, c, Err("PM format: to + text"), End)
             ELSE IF to \notin DOMAIN S.reg
             THEN Put(S, c, ErrArg("User not found", to), End)
             ELSE Put(S, S.reg[to],
                      [type |-> "pm", from |-> S.name[c],
                       text |-> Text("", text, None)],
                      [op |-> "pm_sent", c |-> c, to |-> to])

\* ChatServer._handle_list_rooms
handle_list_rooms(S, c) ==
    Put(S, c, [type |-> "room_list",
               rooms |-> Sorted(SetToSeq(DOMAIN S.rooms))], End)

\* [x.name for x in members if x.name]
RECURSIVE NamesOf(_, _)
NamesOf(S, cs) ==
    IF cs = {} THEN <<>>
    ELSE LET x == CHOOSE y \in cs : TRUE IN
         (IF S.name[x] # None THEN <<S.name[x]>> ELSE <<>>)
             \o NamesOf(S, cs \ {x})

\* the bug of a list_users that lists everyone who has said hello
handle_list_users_all(S, c) ==
    IF S.room[c] = None
    THEN Put(S, c, [type |-> "user_list", users |-> <<>>], End)
    ELSE Put(S, c, [type |-> "user_list", room |-> S.room[c],
                    users |-> Sorted(NamesOf(S, Conns))], End)

\* ChatServer._handle_list_users
handle_list_users(S, c) ==
    IF S.room[c] = None
    THEN Put(S, c, [type |-> "user_list", users |-> <<>>], End)
    ELSE Put(S, c, [type |-> "user_list", room |-> S.room[c],
                    users |-> Sorted(NamesOf(S, Members(S, S.room[c])))], End)

\* uuid.uuid4().hex: the k-th id drawn, different from every other one
FidOf(k) == Lit(Digits[k])

\* the `except Exception` clause of ChatServer._dispatcher
handler_raised(S, c) ==
    Put(S, c, Err("Server-side processing error"), End)

\* the bug of a file_start that tests neither the filename nor the size
file_start_unchecked(S, c, m) ==
    LET filename == Take(Strip(Get(m, "filename", None)), MaxFilenameLen)
        size == IntOrZero(Get(m, "size", JNum(0)))
    IN  IF ~size.ok THEN handler_raised(S, c)
        ELSE LET fid == FidOf(S.nfid + 1)
                 meta == [from |-> S.name[c], room |-> S.room[c],
                          filename |-> filename, size |-> size.v]
                 S1 == [S EXCEPT !.nfid = @ + 1,
                                 !.files = DictSet(S.files, fid, meta),
                                 !.by = DictSet(S.by, fid, c)]
             IN  Put(S1, c, [type |-> "file_ack", id |-> fid],
                     [op |-> "file_start", c |-> c,
                      payload |-> [type |-> "file_start", id |-> fid,
                                   from |-> meta.from, room |-> meta.room,
                                   filename |-> filename, size |-> size.v]])

\* ChatServer._handle_file, t == "file_start"
file_start(S, c, m) ==
    LET filename == Take(Strip(Get(m, "filename", None)), MaxFilenameLen)
        size == IntOrZero(Get(m, "size", JNum(0)))
    IN  IF ~size.ok THEN handler_raised(S, c)
        ELSE IF filename = <<>> \/ size.v < 0 \/ size.v > MaxFileSize
        THEN Put(S, c, Err("Invalid file (name/size)"), End)
        ELSE LET fid == FidOf(S.nfid + 1)
                 meta == [from |-> S.name[c], room |-> S.room[c],
                          filename |-> filename, size |-> size.v]
                 S1 == [S EXCEPT !.nfid = @ + 1,
                                 !.files = DictSet(S.files, fid, meta),
                                 !.by = DictSet(S.by, fid, c)]
             IN  Put(S1, c, [type |-> "file_ack", id |-> fid],
                     [op |-> "file_start", c |-> c,
                      payload |-> [type |-> "file_start", id |-> fid,
                                   from |-> meta.from, room |-> meta.room,
                                   filename |-> filename, size |-> size.v]])

\* meta["from"] != c.name or meta["room"] != c.room
NotOwner(S, c, meta) == meta.from # S.name[c] \/ meta.room # S.room[c]

\* the bug of a chunk relayed to the whole room, its uploader included
file_chunk_echo(S, c, m) ==
    LET fid == Strip(Get(m, "id", None)) IN
    IF fid \notin DOMAIN S.files
    THEN Put(S, c, Err("Unknown file id"), End)
    ELSE IF NotOwner(S, c, S.files[fid])
    THEN Put(S, c, Err("Forbidden file_chunk"), End)
    ELSE LET seq == IntOrZero(Get(m, "seq", JNum(0)))
             data == Get(m, "data", JStr(None))
         IN  IF ~seq.ok THEN handler_raised(S, c)
             ELSE IF data.k # "str" \/ StrLen(data.s) > MaxChunkLen
             THEN Put(S, c, Err("Chunk too large"), End)
             ELSE IF ~B64Valid(data.s)
             THEN Put(S, c, Err("Invalid base64"), End)
             ELSE [broadcast(S, S.room[c],
                             [type |-> "file_chunk", id |-> fid, seq |-> seq.v,
                              data |-> data.s, from |-> S.name[c]], NoConn)
                     EXCEPT !.disp = Idle]

\* the bug of a file_chunk that removes the record once it is relayed
file_chunk_consumes(S, c, m) ==
    LET fid == Strip(Get(m, "id", None)) IN
    IF fid \notin DOMAIN S.files
    THEN Put(S, c, Err("Unknown file id"), End)
    ELSE IF NotOwner(S, c, S.files[fid])
    THEN Put(S, c, Err("Forbidden file_chunk"), End)
    ELSE LET seq == IntOrZero(Get(m, "seq", JNum(0)))
             data == Get(m, "data", JStr(None))
             S1 == broadcast(S, S.room[c],
                             [type |-> "file_chunk", id |-> fid, seq |-> seq.v,
                              data |-> data.s, from |-> S.name[c]], c)
         IN  [S1 EXCEPT !.files = DictDel(S1.files, fid), !.disp = Idle]

\* ChatServer._handle_file, t == "file_chunk"
file_chunk(S, c, m) ==
    LET fid == Strip(Get(m, "id", None)) IN
    IF fid \notin DOMAIN S.files
    THEN Put(S, c, Err("Unknown file id"), End)
    ELSE IF NotOwner(S, c, S.files[fid])
    THEN Put(S, c, Err("Forbidden file_chunk"), End)
    ELSE LET seq == IntOrZero(Get(m, "seq", JNum(0)))
             data == Get(m, "data", JStr(None))
         IN  IF ~seq.ok THEN handler_raised(S, c)
             ELSE IF data.k # "str" \/ StrLen(data.s) > MaxChunkLen
             THEN Put(S, c, Err("Chunk too large"), End)
             ELSE IF ~B64Valid(data.s)
             THEN Put(S, c, Err("Invalid base64"), End)
             ELSE [broadcast(S, S.room[c],
                             [type |-> "file_chunk", id |-> fid, seq |-> seq.v,
                              data |-> data.s, from |-> S.name[c]], c)
                     EXCEPT !.disp = Idle]

\* the bug of a file_end that relays and leaves the record where it is
file_end_keeps(S, c, m) ==
    LET fid == Strip(Get(m, "id", None)) IN
    IF fid \notin DOMAIN S.files
    THEN Put(S, c, Err("Unknown file id"), End)
    ELSE IF NotOwner(S, c, S.files[fid])
    THEN Put(S, c, Err("Forbidden file_end"), End)
    ELSE [broadcast(S, S.room[c],
                    [type |-> "file_end", id |-> fid, from |-> S.name[c]], c)
            EXCEPT !.disp = Idle]

\* ChatServer._handle_file, t == "file_end"
file_end(S, c, m) ==
    LET fid == Strip(Get(m, "id", None)) IN
    IF fid \notin DOMAIN S.files
    THEN Put(S, c, Err("Unknown file id"), End)
    ELSE IF NotOwner(S, c, S.files[fid])
    THEN Put(S, c, Err("Forbidden file_end"), End)
    ELSE LET S1 == broadcast(S, S.room[c],
                             [type |-> "file_end", id |-> fid,
                              from |-> S.name[c]], c)
         IN  [S1 EXCEPT !.files = DictDel(S1.files, fid), !.disp = Idle]

\* ChatServer._handle_file
handle_file(S, c, m) ==
    IF S.name[c] = None \/ S.room[c] = None
    THEN Put(S, c, Err("File transfer requires hello + join"), End)
    ELSE CASE m.type = "file_start" -> file_start(S, c, m)
           [] m.type = "file_chunk" -> file_chunk(S, c, m)
           [] m.type = "file_end" -> file_end(S, c, m)

\* the bug of a dispatcher that drops the events it does not know
dispatch_known_only(S, c, m) ==
    CASE m.type = "hello" -> handle_hello(S, c, m)
      [] m.type = "join" -> handle_join(S, c, m)
      [] m.type = "msg" -> handle_msg(S, c, m)
      [] m.type = "pm" -> handle_pm(S, c, m)
      [] m.type = "list_rooms" -> handle_list_rooms(S, c)
      [] m.type = "list_users" -> handle_list_users(S, c)
      [] m.type \in {"file_start", "file_chunk", "file_end"} -> handle_file(S, c, m)
      [] OTHER -> [S EXCEPT !.disp = Idle]

\* the body of the ChatServer._dispatcher loop for one event
dispatch(S, c, m) ==
    CASE m.type = "hello" -> handle_hello(S, c, m)
      [] m.type = "join" -> handle_join(S, c, m)
      [] m.type = "msg" -> handle_msg(S, c, m)
      [] m.type = "pm" -> handle_pm(S, c, m)
      [] m.type = "list_rooms" -> handle_list_rooms(S, c)
      [] m.type = "list_users" -> handle_list_users(S, c)
      [] m.type \in {"file_start", "file_chunk", "file_end"} -> handle_file(S, c, m)
      [] OTHER -> Put(S, c, [type |-> "error",
                             text |-> Text("Unknown type=", Lit(m.type), None)], End)

\* ------------------------------------------------------------------- lines
\* one line on the wire: its length in bytes and what json.loads makes of it
Object(m) == [bytes |-> 64, body |-> [k |-> "object", obj |-> m]]
Garbage == [bytes |-> 11, body |-> [k |-> "garbage"]]
NotAnObject == [bytes |-> 4, body |-> [k |-> "value"]]
NoType == Object([name |-> Lit("a")])
TooLong == [bytes |-> MAX_LINE_BYTES + 1, body |-> [k |-> "garbage"]]
OverLimit == [bytes |-> STREAM_LIMIT + 2, body |-> [k |-> "garbage"]]

\* StreamReader.readline raises ValueError: the separator lies beyond the limit
ReadlineRaises(line) == line.bytes - 1 > STREAM_LIMIT

\* json.loads(line) is a dict with a "type" key
Decodes(line) == line.body.k = "object" /\ "type" \in DOMAIN line.body.obj

\* ------------------------------------------------------------------- tasks
TaskNone == [at |-> "none"]
TaskDone == [at |-> "done"]
AtReadline == [at |-> "readline"]
AtGet == [at |-> "get"]

InvalidJson == Err("Invalid JSON or schema")

\* the bug of a reader that gives up at the first line that does not decode
AfterBadLineReturn == "return"

\* what _read_loop does after reporting a line that does not decode
AfterBadLine == "loop"

\* the bug of a reader that reports a line that is too long and reads on
AfterLongLineLoop == "loop"

\* what _read_loop does after reporting a line that is too long
AfterLongLine == "return"

\* the reader at end-of-file: readline() returns b"" without suspending and
\* out_q.put returns without suspending while the queue has room, so the loop
\* runs until the queue is full and suspends in put
SpinAtEof(q) ==
    [i \in 1..OutQMax |-> IF i <= Len(q) THEN q[i] ELSE InvalidJson]

AtEof(c) == peer[c] \in {"eof", "gone"}

\* `await client.out_q.put(payload)` in _read_loop, then return or loop
ReaderPut(c, payload, then) ==
    IF Len(out_q[c]) < OutQMax
    THEN /\ out_q' = [out_q EXCEPT ![c] =
                        IF then = "loop" /\ AtEof(c)
                        THEN SpinAtEof(Append(@, payload))
                        ELSE Append(@, payload)]
         /\ rd' = [rd EXCEPT ![c] =
                        IF then = "return" THEN TaskDone
                        ELSE IF AtEof(c)
                        THEN [at |-> "put", payload |-> InvalidJson,
                              then |-> AfterBadLine]
                        ELSE AtReadline]
    ELSE /\ out_q' = out_q
         /\ rd' = [rd EXCEPT ![c] = [at |-> "put", payload |-> payload,
                                     then |-> then]]

\* ChatServer._on_connect up to asyncio.wait: the client object, and both
\* tasks started; _read_loop writes the welcome line and awaits readline
Connect(c) ==
    /\ st[c] = "new"
    /\ st' = [st EXCEPT ![c] = "open"]
    /\ rd' = [rd EXCEPT ![c] = AtReadline]
    /\ wr' = [wr EXCEPT ![c] = AtGet]
    /\ UNCHANGED <<peer, c_name, c_room, rooms, clients_by_name, files, nfid,
                   out_q, events, disp, started_by, sent, srv>>

\* file_start lines on their way to a handler: each may draw a fresh id
PendingStarts ==
    Cardinality({i \in 1..Len(events) : events[i].msg.type = "file_start"})

\* the bug of an events queue that is never full
EventsFullNever == FALSE

\* self._events.put_nowait(Event(client, msg)), or QueueFull
EventsFull == Len(events) >= EventsMax

\* ChatServer._read_loop: one iteration of the loop on a line from the peer
ReadLine(c, line) ==
    /\ st[c] = "open"
    /\ rd[c] = AtReadline
    /\ peer[c] \in {"up", "stalled"}
    /\ Decodes(line) /\ line.body.obj.type = "file_start"
          => nfid + PendingStarts < MaxFiles
    /\ sent' = sent + 1
    /\ IF ReadlineRaises(line)
       THEN /\ rd' = [rd EXCEPT ![c] = TaskDone]
            /\ UNCHANGED <<out_q, events>>
       ELSE IF line.bytes > MAX_LINE_BYTES
       THEN /\ ReaderPut(c, Err("Message is too long"), AfterLongLine)
            /\ UNCHANGED events
       ELSE IF ~Decodes(line)
       THEN /\ ReaderPut(c, InvalidJson, AfterBadLine)
            /\ UNCHANGED events
       ELSE IF ~EventsFull
       THEN /\ events' = Append(events, [client |-> c, msg |-> line.body.obj])
            /\ UNCHANGED <<rd, out_q>>
       ELSE /\ ReaderPut(c, Err("Server overloaded (events queue)"), "loop")
            /\ UNCHANGED events
    /\ UNCHANGED <<st, wr, peer, c_name, c_room, rooms, clients_by_name,
                   files, nfid, disp, started_by, srv>>

\* ChatServer._read_loop at end-of-file: readline() returns b"", which does
\* not decode, and the loop goes round
ReadEof(c) ==
    /\ st[c] = "open"
    /\ rd[c] = AtReadline
    /\ AtEof(c)
    /\ out_q' = [out_q EXCEPT ![c] = SpinAtEof(@)]
    /\ rd' = [rd EXCEPT ![c] = [at |-> "put", payload |-> InvalidJson,
                                then |-> AfterBadLine]]
    /\ UNCHANGED <<st, wr, peer, c_name, c_room, rooms, clients_by_name,
                   files, nfid, events, disp, started_by, sent, srv>>

\* ChatServer._read_loop: readline() raises on a reset connection, caught by
\* `except Exception`
ReadReset(c) ==
    /\ st[c] = "open"
    /\ rd[c] = AtReadline
    /\ peer[c] = "gone"
    /\ rd' = [rd EXCEPT ![c] = TaskDone]
    /\ UNCHANGED <<st, wr, peer, c_name, c_room, rooms, clients_by_name,
                   files, nfid, out_q, events, disp, started_by, sent, srv>>

\* ChatServer._read_loop resumed in `await client.out_q.put(...)`
ReaderResume(c) ==
    /\ st[c] = "open"
    /\ rd[c].at = "put"
    /\ Len(out_q[c]) < OutQMax
    /\ ReaderPut(c, rd[c].payload, rd[c].then)
    /\ UNCHANGED <<st, wr, peer, c_name, c_room, rooms, clients_by_name,
                   files, nfid, events, disp, started_by, sent, srv>>

\* ChatServer._write_loop: out_q.get, then safe_send completes
Write(c) ==
    /\ st[c] = "open"
    /\ wr[c] = AtGet
    /\ peer[c] # "stalled"
    /\ out_q[c] # <<>>
    /\ out_q' = [out_q EXCEPT ![c] = Tail(@)]
    /\ UNCHANGED <<st, rd, wr, peer, c_name, c_room, rooms, clients_by_name,
                   files, nfid, events, disp, started_by, sent, srv>>

\* ChatServer._write_loop: safe_send raises on a lost connection
WriteFail(c) ==
    /\ st[c] = "open"
    /\ wr[c] = AtGet
    /\ peer[c] = "gone"
    /\ out_q[c] # <<>>
    /\ out_q' = [out_q EXCEPT ![c] = Tail(@)]
    /\ wr' = [wr EXCEPT ![c] = TaskDone]
    /\ UNCHANGED <<st, rd, peer, c_name, c_room, rooms, clients_by_name,
                   files, nfid, events, disp, started_by, sent, srv>>

\* if client.name and self._clients_by_name.get(client.name) is client
OwnsName(S, c) ==
    S.name[c] # None /\ S.name[c] \in DOMAIN S.reg /\ S.reg[S.name[c]] = c

\* ChatServer._cleanup_client on the registries
cleanup_client(S, c) ==
    LET S1 == IF S.room[c] # None
              THEN RoomDropIfEmpty(RoomDiscard(S, S.room[c], c), S.room[c])
              ELSE S
    IN  IF OwnsName(S1, c)
        THEN [S1 EXCEPT !.reg = DictDel(S1.reg, S.name[c])]
        ELSE S1

\* the bug of a handler that cleans up without cancelling the other task
CleanupNoCancel(c) ==
    /\ st[c] = "open"
    /\ rd[c] = TaskDone \/ wr[c] = TaskDone
    /\ LET S == cleanup_client(Cur, c) IN
          /\ rooms' = S.rooms
          /\ clients_by_name' = S.reg
    /\ st' = [st EXCEPT ![c] = "closed"]
    /\ UNCHANGED <<rd, wr, peer, c_name, c_room, files, nfid, out_q, events,
                   disp, started_by, sent, srv>>

\* ChatServer._on_connect after asyncio.wait: one task is done, the other is
\* cancelled and awaited, then _cleanup_client
Cleanup(c) ==
    /\ st[c] = "open"
    /\ rd[c] = TaskDone \/ wr[c] = TaskDone
    /\ LET S == cleanup_client(Cur, c) IN
          /\ rooms' = S.rooms
          /\ clients_by_name' = S.reg
    /\ st' = [st EXCEPT ![c] = "closed"]
    /\ rd' = [rd EXCEPT ![c] = TaskDone]
    /\ wr' = [wr EXCEPT ![c] = TaskDone]
    /\ UNCHANGED <<peer, c_name, c_room, files, nfid, out_q, events, disp,
                   started_by, sent, srv>>

Commit(S) ==
    /\ c_name' = S.name
    /\ c_room' = S.room
    /\ rooms' = S.rooms
    /\ clients_by_name' = S.reg
    /\ files' = S.files
    /\ nfid' = S.nfid
    /\ out_q' = S.q
    /\ disp' = S.disp
    /\ started_by' = S.by

\* the bug of a dispatcher that takes the newest event first
DispatchNewest ==
    /\ disp = Idle
    /\ events # <<>>
    /\ events' = Front(events)
    /\ Commit(dispatch(Cur, events[Len(events)].client, events[Len(events)].msg))
    /\ UNCHANGED <<st, rd, wr, peer, sent, srv>>

\* ChatServer._dispatcher: events.get() returns and the handler runs until it
\* returns or suspends
Dispatch ==
    /\ disp = Idle
    /\ events # <<>>
    /\ events' = Tail(events)
    /\ Commit(dispatch(Cur, Head(events).client, Head(events).msg))
    /\ UNCHANGED <<st, rd, wr, peer, sent, srv>>

\* ChatServer._dispatcher resumed in `await ... out_q.put(...)`
DispatchResume ==
    /\ disp.at = "put"
    /\ Len(out_q[disp.target]) < OutQMax
    /\ Commit(Put(Cur, disp.target, disp.payload, disp.k))
    /\ UNCHANGED <<st, rd, wr, peer, events, sent, srv>>

\* ---------------------------------------------------------------- stop
\* ChatServer.stop: self._dispatcher_task.cancel() and `await` of the task.
\* CancelledError is raised in the dispatcher where it waits, in get() or in a
\* handler's put, and is no Exception: the task ends
StopDispatcher ==
    /\ srv.at = "running"
    /\ srv' = [at |-> "dispatcher_cancelled"]
    /\ disp' = TaskDone
    /\ UNCHANGED <<st, rd, wr, peer, c_name, c_room, rooms, clients_by_name,
                   files, nfid, out_q, events, started_by, sent>>

\* ChatServer.stop: every task in self._client_tasks is cancelled, and
\* gather(*self._client_tasks) is awaited.  The set holds the reader and the
\* writer of every connection whose handler has started them and has not yet
\* taken them out; both re-raise CancelledError
StopClients ==
    /\ srv.at = "dispatcher_cancelled"
    /\ srv' = [at |-> "gathering", cancelled |-> {c \in Conns : st[c] = "open"}]
    /\ rd' = [c \in Conns |-> IF st[c] = "open" THEN TaskDone ELSE rd[c]]
    /\ wr' = [c \in Conns |-> IF st[c] = "open" THEN TaskDone ELSE wr[c]]
    /\ UNCHANGED <<st, peer, c_name, c_room, rooms, clients_by_name, files,
                   nfid, out_q, events, disp, started_by, sent>>

\* ChatServer.stop after gather: _client_tasks.clear(), the listening socket
\* closed, the three registries cleared, and stop returns.  The handler of
\* a connection whose tasks stop has cancelled is woken by the end of its
\* first task, before gather in stop is woken by the end of the last one,
\* and has run _cleanup_client on the registries by then
StopFinish ==
    /\ srv.at = "gathering"
    /\ \A c \in srv.cancelled : st[c] = "closed"
    /\ srv' = [at |-> "stopped"]
    /\ rooms' = EmptyDict
    /\ clients_by_name' = EmptyDict
    /\ files' = EmptyDict
    /\ UNCHANGED <<st, rd, wr, peer, c_name, c_room, nfid, out_q, events, disp,
                   started_by, sent>>

Stopping ==
    \/ StopDispatcher
    \/ StopClients
    \/ StopFinish

\* ------------------------------------------------------------- environment
PeerBecomes(c, from, to) ==
    /\ st[c] = "open"
    /\ peer[c] \in from
    /\ peer' = [peer EXCEPT ![c] = to]
    /\ UNCHANGED <<st, rd, wr, c_name, c_room, rooms, clients_by_name, files,
                   nfid, out_q, events, disp, started_by, sent, srv>>

\* the peer stops reading: the transport's buffer fills and drain() waits
PeerStalls(c) == PeerBecomes(c, {"up"}, "stalled")

\* the peer shuts down its sending side and keeps reading
PeerSendsEof(c) == PeerBecomes(c, {"up"}, "eof")

\* the peer closes the connection
PeerCloses(c) == PeerBecomes(c, {"up", "stalled", "eof"}, "gone")

\* ChatServer.__init__
Constructed ==
    [name |-> [c \in Conns |-> None], room |-> [c \in Conns |-> None],
     rooms |-> EmptyDict, reg |-> EmptyDict, files |-> EmptyDict, nfid |-> 0,
     q |-> [c \in Conns |-> <<>>], disp |-> Idle, by |-> EmptyDict]

\* the server in state S with the connections CS accepted (_on_connect up to
\* asyncio.wait) and nothing yet on its way in
Running(S, CS) ==
    /\ st = [c \in Conns |-> IF c \in CS THEN "open" ELSE "new"]
    /\ rd = [c \in Conns |-> IF c \in CS THEN AtReadline ELSE TaskNone]
    /\ wr = [c \in Conns |-> IF c \in CS THEN AtGet ELSE TaskNone]
    /\ peer = [c \in Conns |-> "up"]
    /\ c_name = S.name
    /\ c_room = S.room
    /\ rooms = S.rooms
    /\ clients_by_name = S.reg
    /\ files = S.files
    /\ nfid = S.nfid
    /\ out_q = S.q
    /\ events = <<>>
    /\ disp = S.disp
    /\ started_by = S.by
    /\ sent = 0
    /\ srv = [at |-> "running"]

Accepted(CS) == Running(Constructed, CS)

\* the writers send everything that is queued and the dispatcher, if it waits
\* in a put, goes on, until the handler has returned and the queues are empty
RECURSIVE Settle(_)
Settle(S) ==
    LET T == [S EXCEPT !.q = [c \in Conns |-> <<>>]] IN
    IF S.disp = Idle THEN T ELSE Settle(Put(T, S.disp.target, S.disp.payload, S.disp.k))

\* the server after the event m of connection c, all of its output sent
After(S, c, m) == Settle(dispatch(S, c, m))

\* the server's tasks and peers that keep their connections up, the peers of
\* the connections CS sending at most maxLines lines, those of c drawn from L[c]
Serve(L, CS, maxLines) ==
    \/ \E c \in CS : sent < maxLines /\ \E line \in L[c] : ReadLine(c, line)
    \/ \E c \in CS : ReaderResume(c)
    \/ \E c \in CS : Write(c)
    \/ Dispatch
    \/ DispatchResume

\* the same in two parts: the peers' lines, and the server's tasks
Sending(L, CS, maxLines) ==
    \E c \in CS : sent < maxLines /\ \E line \in L[c] : ReadLine(c, line)
Tasks(CS) ==
    \/ \E c \in CS : ReaderResume(c)
    \/ \E c \in CS : Write(c)
    \/ Dispatch
    \/ DispatchResume

\* connections accepted while the server runs
Accepting(CS) == \E c \in CS : Connect(c)

\* peers that close their connections
Closing(CS) ==
    \/ \E c \in CS : PeerCloses(c)
    \/ \E c \in CS : ReadEof(c)
    \/ \E c \in CS : ReadReset(c)
    \/ \E c \in CS : WriteFail(c)
    \/ \E c \in CS : Cleanup(c)

\* peers that stop reading, or stop sending
Stalling(CS) ==
    \/ \E c \in CS : PeerStalls(c)
    \/ \E c \in CS : PeerSendsEof(c)

\* ----------------------------------------------------------- what is sent
NameA == Lit("a")
NameB == Lit("b")
RoomR == Lit("r")
Hello(n) == Object([type |-> "hello", name |-> n])
Join(r) == Object([type |-> "join", room |-> r])
Msg(t) == Object([type |-> "msg", text |-> t])
Pm(to, t) == Object([type |-> "pm", to |-> to, text |-> t])
FileStart(f, size) == Object([type |-> "file_start", filename |-> f, size |-> size])
FileChunk(id, seq, data) ==
    Object([type |-> "file_chunk", id |-> id, seq |-> seq, data |-> JStr(data)])
FileEnd(id) == Object([type |-> "file_end", id |-> id])
ListRooms == Object([type |-> "list_rooms"])
ListUsers == Object([type |-> "list_users"])

MaxLines == 2
Lines ==
    [c \in Conns |-> {Hello(NameA), Join(RoomR), Msg(Lit("x")),
                      Garbage, NotAnObject, NoType}]

Init == Accepted({"A"})
Next ==
    \/ Accepting({"B"})
    \/ Serve(Lines, {"A", "B"}, MaxLines)
    \/ Closing({"A"})
    \/ Stalling({"B"})
Spec == Init /\ [][Next]_vars

\* ------------------------------------------------------ reading one step
\* this step is the dispatcher taking an event of connection c off the queue
Handling(c, type) ==
    /\ disp = Idle
    /\ events # <<>>
    /\ events' = Tail(events)
    /\ Head(events).client = c
    /\ Head(events).msg.type = type

Registries == <<c_name, c_room, rooms, clients_by_name, files>>

\* payload is put on target's queue by `await put`: at once, or the dispatcher
\* waits with it for room in the queue
Awaited(target, payload) ==
    IF Len(out_q[target]) < OutQMax
    THEN out_q'[target] = Append(out_q[target], payload)
    ELSE out_q'[target] = out_q[target] /\ disp'.at = "put"
         /\ disp'.target = target /\ disp'.payload = payload

\* the event is answered with payload, for its sender alone, and changes no
\* registry
AnsweredOnly(c, payload) ==
    /\ Awaited(c, payload)
    /\ \A x \in Conns \ {c} : out_q'[x] = out_q[x]
    /\ UNCHANGED Registries

Holds(c, n) == n \in DOMAIN clients_by_name /\ clients_by_name[n] = c
HoldsNext(c, n) == n \in DOMAIN clients_by_name' /\ clients_by_name'[n] = c

\* -------------------------------------------------------- chat (C2, C3)
\* A and B have said hello and are in the default room; C has said hello and
\* joined another room
NameC == Lit("c")
Lounge ==
    After(After(After(After(Constructed,
        "A", [type |-> "hello", name |-> NameA]),
        "B", [type |-> "hello", name |-> NameB]),
        "C", [type |-> "hello", name |-> NameC]),
        "C", [type |-> "join", room |-> RoomR])

MaxChatLines == 3
TextX == Lit("x")
TextY == Lit("y")
ChatLines ==
    [c \in Conns |->
        CASE c = "A" -> {Msg(TextX), Pm(NameB, TextY)}
          [] c = "B" -> {Join(RoomR), Pm(NameC, TextY)}
          [] c = "C" -> {Msg(TextY), Garbage}]

NextChat ==
    \/ Serve(ChatLines, Conns, MaxChatLines)
    \/ Closing({"C"})
SpecChat == Running(Lounge, Conns) /\ [][NextChat]_vars

\* the msg event _handle_msg makes of a text sent by a connection named from
\* in room
MsgEvent(room, from, text) ==
    [type |-> "msg", room |-> room, from |-> from, text |-> Text("", text, None)]

\* payload is offered to x's queue by put_nowait: appended, or dropped when
\* the queue is full
Offered(x, payload) ==
    out_q'[x] = IF Len(out_q[x]) < OutQMax THEN Append(out_q[x], payload)
                ELSE out_q[x]

\* C2: when the dispatcher handles a msg with a text of 1..2000 characters
\* from a named connection a whose room is R, the event msg(room = R, from =
\* a's name, text) is appended to the queue of every member of R that has
\* space, and the queue of every connection whose room is not R stays as it is
C2_MsgToRoomOnly ==
    [][\A a \in Conns :
          Handling(a, "msg") /\ c_name[a] # None /\ c_room[a] # None =>
              LET text == RStripNL(Get(Head(events).msg, "text", None))
                  R == c_room[a]
              IN  text # <<>> /\ StrLen(text) <= MaxTextLen =>
                    /\ \A b \in Conns :
                          R \in DOMAIN rooms /\ b \in rooms[R]
                              => Offered(b, MsgEvent(R, c_name[a], text))
                    /\ \A x \in Conns : c_room[x] # R => out_q'[x] = out_q[x]
    ]_vars

\* A and B, in the same room, both have A's msg; C, in another room, has had
\* nothing
C2_Witness ==
    /\ c_room["A"] = DEFAULT_ROOM /\ c_room["B"] = DEFAULT_ROOM
    /\ c_room["C"] = RoomR
    /\ out_q["A"] = <<MsgEvent(DEFAULT_ROOM, NameA, TextX)>>
    /\ out_q["B"] = <<MsgEvent(DEFAULT_ROOM, NameA, TextX)>>
    /\ out_q["C"] = <<>>
    /\ sent = 1 /\ events = <<>>

\* the pm event _handle_pm makes of a text sent by a connection named from
PmEvent(from, text) ==
    [type |-> "pm", from |-> from, text |-> Text("", text, None)]

\* what this step adds to x's queue
Added(x) == SubSeq(out_q'[x], Len(out_q[x]) + 1, Len(out_q'[x]))
OnlyAdds(x) ==
    /\ Len(out_q'[x]) >= Len(out_q[x])
    /\ SubSeq(out_q'[x], 1, Len(out_q[x])) = out_q[x]

\* C3: when the dispatcher handles a pm of a named connection a with a text
\* and an addressee name that the registry maps to connection b, the event
\* pm(from = a's name, text) is put on b's queue (at once, or the dispatcher
\* waits with it for room there), no pm event is put on or held for the queue
\* of any other connection, and a connection other than a and b gets nothing
C3_PmToAddresseeOnly ==
    [][\A a \in Conns : Handling(a, "pm") /\ c_name[a] # None =>
          LET to == Strip(Get(Head(events).msg, "to", None))
              text == RStripNL(Get(Head(events).msg, "text", None))
          IN  to # <<>> /\ text # <<>> /\ to \in DOMAIN clients_by_name =>
                LET b == clients_by_name[to] IN
                /\ Awaited(b, PmEvent(c_name[a], text))
                   \/ /\ Len(out_q[b]) < OutQMax
                      /\ OnlyAdds(b)
                      /\ Added(b)[1] = PmEvent(c_name[a], text)
                /\ \A x \in Conns \ {b} :
                      /\ OnlyAdds(x)
                      /\ \A i \in 1..Len(Added(x)) : Added(x)[i].type # "pm"
                      /\ x # a => out_q'[x] = out_q[x]
                /\ disp' # Idle /\ disp'.payload.type = "pm" => disp'.target = b
    ]_vars

\* B has A's pm, A has the acknowledgment, and C, who shares no room with
\* them, has nothing
C3_Witness ==
    /\ out_q["B"] = <<PmEvent(NameA, TextY)>>
    /\ out_q["A"] = <<Info("PM sent ->", NameB)>>
    /\ out_q["C"] = <<>>
    /\ sent = 1 /\ events = <<>>

\* -------------------------------------------------- file relay (C4, C5)
\* A, in the default room with B, has started a transfer
NameD == Lit("d")
Upload ==
    After(Lounge, "A", [type |-> "file_start", filename |-> Lit("f"),
                        size |-> JNum(4)])

\* "QQ==", the base64 of one byte
DataQ == Run("Q", 2) \o Run("=", 2)
\* the id of Upload's transfer, as it is and between blanks
Fid == FidOf(1)
PaddedFid == Lit(" ") \o Fid \o Lit(" ")
\* the decimal numeral of n in 1..9
Numeral(n) == Lit(Digits[n])

\* every chunk carries as seq the number of the line it is: a JSON integer, a
\* numeral in a string, or a number with a fraction
MaxFileLines == 3
FileLines ==
    [c \in Conns |->
        CASE c = "A" -> {Hello(NameD),
                         FileChunk(Fid, JNum(sent + 1), DataQ),
                         FileChunk(PaddedFid, JStr(Numeral(sent + 1)), DataQ),
                         FileChunk(Fid, JFrac(sent + 1, 5), DataQ)}
          [] c = "B" -> {Hello(NameA), FileChunk(Fid, JNum(sent + 1), DataQ),
                         FileEnd(Fid), Garbage}
          [] c = "C" -> {}]

NextFiles ==
    \/ Sending(FileLines, Conns, MaxFileLines)
    \/ Tasks(Conns)
    \/ Closing({"A"})
SpecFiles == Running(Upload, Conns) /\ [][NextFiles]_vars

\* the event is answered with an error, for its sender
Rejected(c) ==
    \/ /\ OnlyAdds(c) /\ Len(Added(c)) = 1
       /\ Added(c)[1].type = "error"
    \/ /\ out_q'[c] = out_q[c]
       /\ disp' # Idle /\ disp'.target = c /\ disp'.payload.type = "error"

\* C4 as stated: a file_chunk or file_end whose id names no transfer record,
\* or the record of a transfer that another connection started, is answered
\* with an error, puts nothing on the queue of any other connection and
\* leaves the transfer records as they are
C4_ForeignOrUnknownRejected ==
    [][\A c \in Conns :
          Handling(c, "file_chunk") \/ Handling(c, "file_end") =>
              LET fid == Strip(Get(Head(events).msg, "id", None)) IN
              fid \notin DOMAIN files \/ started_by[fid] # c =>
                  /\ Rejected(c)
                  /\ \A x \in Conns \ {c} : out_q'[x] = out_q[x]
                  /\ files' = files
    ]_vars

\* the file_chunk event the relay makes
ChunkEvent(id, seq, data, from) ==
    [type |-> "file_chunk", id |-> id, seq |-> seq, data |-> data, from |-> from]

\* the chunk at the head of the inbound queue, sent by c, passes the checks of
\* the handler: c has a name and a room, its id (blanks stripped) names a
\* record whose uploader name and room are c's, and its data is a base64
\* string of at most 200,000 characters
ChunkPasses(c) ==
    LET m == Head(events).msg
        fid == Strip(Get(m, "id", None))
    IN  /\ c_name[c] # None /\ c_room[c] # None
        /\ fid \in DOMAIN files
        /\ files[fid].from = c_name[c] /\ files[fid].room = c_room[c]
        /\ m.data.k = "str" /\ StrLen(m.data.s) <= MaxChunkLen
        /\ B64Valid(m.data.s)

\* int(seq) for the seq values that are sent
SeqAsInt(j) ==
    CASE j.k = "num" -> j.v
      [] j.k = "frac" -> j.whole
      [] j.k = "str" -> CHOOSE n \in 1..9 : Numeral(n) = Strip(j.s)

\* the file_chunk events in every outbound queue are in the order their
\* chunks were sent
ChunksInOrder ==
    \A x \in Conns : \A i, j \in 1..Len(out_q[x]) :
        i < j /\ out_q[x][i].type = "file_chunk" /\ out_q[x][j].type = "file_chunk"
            => out_q[x][i].seq < out_q[x][j].seq

BadStart == FileStart(Lit("f"), JStr(Lit("x")))

MaxLoadLines == 4
LoadLines ==
    [c \in Conns |->
        CASE c = "A" -> {Pm(NameB, TextY)}
          [] c = "B" -> {BadStart}
          [] c = "C" -> {Msg(TextY), Garbage}]

\* B may stop reading; every task that can run does run
NextLoad ==
    \/ Serve(LoadLines, Conns, MaxLoadLines)
    \/ Stalling({"B"})
SpecLoad ==
    /\ Running(Lounge, Conns)
    /\ [][NextLoad]_vars
    /\ WF_vars(Dispatch)
    /\ WF_vars(DispatchResume)
    /\ \A c \in Conns : WF_vars(Write(c)) /\ WF_vars(ReaderResume(c))

HasEvents(c) == \E i \in 1..Len(events) : events[i].client = c

\* C6 as stated: if from some time on B never reads and its outbound queue
\* stays full, every event of another connection that is in the inbound
\* queue is eventually taken by the dispatcher and its handler returns
C6_OverloadNoDeadlock ==
    <>[](peer["B"] = "stalled" /\ Len(out_q["B"]) = OutQMax)
        => \A c \in Conns \ {"B"} :
              HasEvents(c) ~> (~HasEvents(c) /\ disp = Idle)

\* C7 as stated: the dispatcher never waits for room in an outbound queue
C7_NeverWaitsForSpace == disp.at # "put"

\* C9 as stated: when a handler has raised, the error event is handed to the
\* offending connection and the dispatcher goes back to taking events
C9_FailureThenNextEvent ==
    (disp # Idle /\ disp.payload = Err("Server-side processing error"))
        ~> (disp = Idle)

\* ----------------------------------------------------- bad lines (C8)
\* lines within the length limit that are no JSON, no JSON object, or an
\* object without "type"
BadLines == {Garbage, NotAnObject, NoType}

\* C8: when the reader of c reads a line within the length limit that is not
\* JSON, not an object or an object without "type", nothing is added to the
\* inbound queue, nothing changes for another connection and no registry
\* changes; the error "Invalid JSON or schema" is appended to c's queue and
\* the reader is back at readline, or, c's queue being full, the reader waits
\* with that error for room; and a reader that has waited so is back at
\* readline once the error is in the queue (the peer not being at
\* end-of-file)
C8_BadLineReported ==
    [][\A c \in Conns :
          /\ \A line \in BadLines : ReadLine(c, line) =>
                /\ events' = events /\ disp' = disp
                /\ UNCHANGED Registries
                /\ \A x \in Conns \ {c} : out_q'[x] = out_q[x] /\ rd'[x] = rd[x]
                /\ st'[c] = "open"
                /\ IF Len(out_q[c]) < OutQMax
                   THEN /\ out_q'[c] = Append(out_q[c], InvalidJson)
                        /\ rd'[c] = AtReadline
                   ELSE /\ out_q'[c] = out_q[c]
                        /\ rd'[c].at = "put" /\ rd'[c].payload = InvalidJson
          /\ rd[c] # TaskDone /\ rd[c].at = "put" /\ rd[c].payload = InvalidJson
                /\ rd'[c] # rd[c] /\ st'[c] = "open" /\ ~AtEof(c) =>
                /\ out_q'[c] = Append(out_q[c], InvalidJson)
                /\ rd'[c] = AtReadline
    ]_vars

\* A sent a line that is no JSON and then a hello: the error and the answer
\* to the hello are in its queue, and its reader is reading
C8_Witness ==
    /\ out_q["A"] = <<InvalidJson, Info("You are logged in as", NameA)>>
    /\ c_name["A"] = NameA
    /\ rd["A"] = AtReadline /\ st["A"] = "open"

\* ---------------------------------------------------- end of stream (C18)
\* this step is the reader of c returning from readline
ReaderReads(c) == st[c] = "open" /\ rd[c] = AtReadline /\ rd'[c] # rd[c]

\* C18: the reader that finds its stream at its end ends, and puts nothing on
\* the connection's outbound queue and nothing on the inbound queue
C18_ReaderEndsAtEof ==
    [][\A c \in Conns :
          ReaderReads(c) /\ AtEof(c)
              => /\ rd'[c] = TaskDone
                 /\ out_q'[c] = out_q[c]
                 /\ events' = events]_vars

\* ------------------------------------------------- shutdown (C17, C20)
NextStop ==
    \/ Accepting({"B"})
    \/ Serve(Lines, {"A", "B"}, MaxLines)
    \/ Closing({"A", "B"})
    \/ Stopping
SpecStop == Init /\ [][NextStop]_vars

\* no reader or writer task of c is running
TasksEndedNext(c) == rd'[c] \in {TaskNone, TaskDone} /\ wr'[c] \in {TaskNone, TaskDone}

\* C17: cleanup of a connection starts when one of its two tasks is done and
\* neither is running any more, whether the tasks ended by themselves or were
\* cancelled by stop; a connection that is cleaned up is never cleaned up
\* again and none of its tasks runs again
C17_CleanupOnceTasksEnded ==
    [][\A c \in Conns :
          /\ st[c] = "open" /\ st'[c] = "closed"
                => /\ rd[c] = TaskDone \/ wr[c] = TaskDone
                   /\ rd'[c] = TaskDone /\ wr'[c] = TaskDone
          /\ st[c] = "closed"
                => st'[c] = "closed" /\ TasksEndedNext(c)]_vars

\* stop has returned; A, who had a name and a room, was cleaned up when stop
\* cancelled its tasks, and B when its peer was gone and a write failed
C17_Witness ==
    /\ srv.at = "stopped"
    /\ st["A"] = "closed" /\ peer["A"] = "up" /\ c_name["A"] = NameA
    /\ st["B"] = "closed" /\ peer["B"] = "gone" /\ out_q["B"] = <<>>

\* C20: when stop returns, the dispatcher and the reader and the writer of
\* every connection have ended and the three registries are empty
C20_StopLeavesNothing ==
    [][srv.at # "stopped" /\ srv'.at = "stopped" =>
          /\ disp' = TaskDone
          /\ \A c \in Conns : TasksEndedNext(c)
          /\ rooms' = EmptyDict
          /\ clients_by_name' = EmptyDict
          /\ files' = EmptyDict]_vars

\* ------------------------------------------------ msg before hello (C14)
\* C14: a msg of a connection without a name is answered with the error
\* "Send hello first" for its sender alone: no connection is sent the message
C14_MsgBeforeHello ==
    [][\A c \in Conns :
          Handling(c, "msg") /\ c_name[c] = None
              => AnsweredOnly(c, Err("Send hello first"))]_vars

\* A has sent a msg as its first line and has the error
C14_Witness ==
    /\ out_q["A"] = <<Err("Send hello first")>>
    /\ c_name["A"] = None
    /\ sent = 1 /\ events = <<>> /\ disp = Idle

\* ------------------------------------------------ order of handling (C15)
\* every msg and pm carries as text the number of the line it is
MaxOrderLines == 4
OrderLines ==
    [c \in Conns |->
        CASE c = "A" -> {Msg(Numeral(sent + 1)), Pm(NameB, Numeral(sent + 1)),
                         Garbage}
          [] c = "B" -> {}
          [] c = "C" -> {Pm(NameB, Numeral(sent + 1))}]

NextOrder ==
    \/ Sending(OrderLines, Conns, MaxOrderLines)
    \/ Tasks(Conns)
SpecOrder == Running(Lounge, Conns) /\ [][NextOrder]_vars

\* the number of the line an event was made of
Stamp(e) == DecVal(e.msg.text, 0)

\* the events without the i-th
Without(q, i) == SubSeq(q, 1, i - 1) \o SubSeq(q, i + 1, Len(q))

\* C15: when the dispatcher starts on an event, the handler of the event
\* before has returned and no line the same connection sent earlier is still
\* in the inbound queue
C15_FifoPerSource ==
    [][Len(events') < Len(events) =>
          /\ disp = Idle
          /\ \E i \in 1..Len(events) :
                /\ events' = Without(events, i)
                /\ \A j \in 1..Len(events) :
                      j # i /\ events[j].client = events[i].client
                          => Stamp(events[j]) > Stamp(events[i])]_vars

\* the dispatcher waits for room in B's queue with A's third line, a pm, and
\* A's fourth line is in the inbound queue
C15_Witness ==
    /\ disp # Idle /\ disp.target = "B" /\ disp.k.c = "A"
    /\ disp.payload.text = Text("", Numeral(3), None)
    /\ events = <<[client |-> "A", msg |-> Msg(Numeral(4)).body.obj]>>

\* -------------------------------------- rooms (C11, C12, C13, C16, C19)
MaxRoomLines == 3
RoomLines ==
    [c \in Conns |->
        CASE c = "A" -> {Join(RoomR), Join(DEFAULT_ROOM)}
          [] c = "B" -> {Join(RoomR), ListRooms}
          [] c = "C" -> {Join(DEFAULT_ROOM), Garbage}]

NextRooms ==
    \/ Serve(RoomLines, Conns, MaxRoomLines)
    \/ Closing({"C"})
SpecRooms == Running(Lounge, Conns) /\ [][NextRooms]_vars

\* C11: no connection is in the member set of more than one room
C11_OneRoomPerConnection ==
    \A c \in Conns : \A r1, r2 \in DOMAIN rooms :
        c \in rooms[r1] /\ c \in rooms[r2] => r1 = r2

\* A has moved from the default room, where B still is, to C's room
C11_Witness ==
    /\ DEFAULT_ROOM \in DOMAIN rooms /\ RoomR \in DOMAIN rooms
    /\ rooms[RoomR] = {"A", "C"}
    /\ rooms[DEFAULT_ROOM] = {"B"}
    /\ c_room["A"] = RoomR

\* the connected members of room r, before and after a step
ConnectedIn(r) == {c \in rooms[r] : st[c] = "open"}
ConnectedInNext(r) ==
    IF r \in DOMAIN rooms' THEN {c \in rooms'[r] : st'[c] = "open"} ELSE {}

\* C12: a step in which the last connected member of a room leaves it, by a
\* join elsewhere or by the cleanup after its disconnect, removes the room from
\* the room map, which is what list_rooms answers with
C12_RoomsCollected ==
    [][\A r \in DOMAIN rooms :
          ConnectedIn(r) # {} /\ ConnectedInNext(r) = {}
              => r \notin DOMAIN rooms']_vars

\* the room a join asks for: (msg.get("room") or "").strip()
AskedRoom == Strip(Get(Head(events).msg, "room", None))

\* C13: a join, by a connection that has a name, of the room it is in is
\* answered with "You are already in room" for the caller alone: no other
\* connection is sent anything, and the room map, the caller's room and the
\* other registries stay as they are
C13_RejoinIsNoop ==
    [][\A c \in Conns :
          /\ Handling(c, "join")
          /\ c_name[c] # None
          /\ c_room[c] # None
          /\ AskedRoom = c_room[c]
          => AnsweredOnly(c, Info("You are already in room", c_room[c]))]_vars

\* A, in the default room with B, has asked to join it and has its answer
C13_Witness ==
    /\ out_q["A"] = <<Info("You are already in room", DEFAULT_ROOM)>>
    /\ out_q["B"] = <<>>
    /\ sent = 1 /\ events = <<>> /\ disp = Idle
    /\ c_room["A"] = DEFAULT_ROOM
    /\ rooms = Lounge.rooms

\* this step is one of the dispatcher task: it takes an event and runs its
\* handler, or it goes on with the handler it was suspended in
DispatcherStep ==
    \/ disp = Idle /\ events # <<>> /\ events' = Tail(events)
    \/ disp # Idle /\ disp' # disp

\* C16: the registries change in steps of the dispatcher only, and not while
\* the dispatcher is suspended in the handler of an event
C16_OnlyDispatcherMutates ==
    [][Registries' # Registries => DispatcherStep]_vars

\* C19: a connection that has been cleaned up is a member of no room and
\* holds no name in the registry
C19_NowhereAfterCleanup ==
    \A c \in Conns :
        st[c] = "closed" =>
            /\ \A r \in DOMAIN rooms : c \notin rooms[r]
            /\ \A n \in DOMAIN clients_by_name : clients_by_name[n] # c

\* this step is the dispatcher going on in the handler it waited in
DispatcherGoesOn == disp.at = "put" /\ disp' # disp /\ disp' # TaskDone

\* the member set of room r in the next state
MembersNext(r) == IF r \in DOMAIN rooms' THEN rooms'[r] ELSE {}

\* the notices _join_room sends to the rooms it takes c out of and puts it in
LeftNotice(c, old) == Info2("left room", c_name[c], old)
JoinedNotice(c, new) == Info2("joined room", c_name[c], new)

\* C21: when the dispatcher handles the join of a named connection c, in
\* room old, for another room new (a name of 1..40 characters): c is taken
\* out of old, which is deleted if nobody is left in it, and is put into new,
\* which is made if it is not there; no other room changes; the remaining
\* members of old, and nobody else, are offered the left notice; c gets the
\* acknowledgment alone (at once, or the dispatcher waits with it for room in
\* c's queue); and the members new had before, and nobody else, are offered
\* the joined notice once the acknowledgment is in c's queue.  A notice is
\* offered by put_nowait: dropped when the queue is full
C21_JoinMoves ==
    [][/\ \A c \in Conns :
            /\ Handling(c, "join")
            /\ c_name[c] # None /\ c_room[c] # None
            /\ AskedRoom # <<>> /\ StrLen(AskedRoom) <= MaxRoomLen
            /\ AskedRoom # c_room[c]
            => LET old == c_room[c]
                   new == AskedRoom
                   stay == Members(Cur, old) \ {c}
                   were == Members(Cur, new) \ {c}
                   acked == Len(out_q[c]) < OutQMax
               IN  /\ c_room' = [c_room EXCEPT ![c] = new]
                   /\ MembersNext(old) = stay
                   /\ old \in DOMAIN rooms' <=> stay # {}
                   /\ new \in DOMAIN rooms' /\ rooms'[new] = were \cup {c}
                   /\ \A r \in (DOMAIN rooms \cup DOMAIN rooms') \ {old, new} :
                         r \in DOMAIN rooms /\ r \in DOMAIN rooms'
                             /\ rooms'[r] = rooms[r]
                   /\ UNCHANGED <<c_name, clients_by_name, files>>
                   /\ Awaited(c, Info("You joined room", new))
                   /\ \A x \in Conns \ {c} :
                         IF x \in stay THEN Offered(x, LeftNotice(c, old))
                         ELSE IF x \in were /\ acked
                         THEN Offered(x, JoinedNotice(c, new))
                         ELSE out_q'[x] = out_q[x]
                   /\ ~acked => disp'.k = [op |-> "joined", c |-> c, room |-> new]
       /\ DispatcherGoesOn /\ disp.k.op = "joined"
            => LET c == disp.k.c
                   new == disp.k.room
               IN  /\ UNCHANGED Registries
                   /\ disp' = Idle
                   /\ out_q'[c] = Append(out_q[c], disp.payload)
                   /\ \A x \in Conns \ {c} :
                         IF x \in Members(Cur, new)
                         THEN Offered(x, JoinedNotice(c, new))
                         ELSE out_q'[x] = out_q[x]
    ]_vars

\* A has moved from the default room to C's: B, who stays, has the left
\* notice, C the joined notice and A the acknowledgment
C21_Witness ==
    /\ out_q["A"] = <<Info("You joined room", RoomR)>>
    /\ out_q["B"] = <<Info2("left room", NameA, DEFAULT_ROOM)>>
    /\ out_q["C"] = <<Info2("joined room", NameA, RoomR)>>
    /\ rooms[RoomR] = {"A", "C"} /\ rooms[DEFAULT_ROOM] = {"B"}
    /\ c_room["A"] = RoomR /\ sent = 1

\* ------------------------------------------------- join refused (C22)
\* A has said hello and has joined room r; B has not said hello
Greeted ==
    After(After(Constructed,
        "A", [type |-> "hello", name |-> NameA]),
        "A", [type |-> "join", room |-> RoomR])

\* room names: of 41 characters, and of 40 between two blanks
LongRoom == Run("r", MaxRoomLen + 1)
PaddedRoom == Run(" ", 1) \o Run("r", MaxRoomLen) \o Run(" ", 1)

MaxCheckLines == 3
JoinLines ==
    [c \in Conns |->
        CASE c = "A" -> {Join(None), Join(Run(" ", 2)), Join(LongRoom),
                         Join(PaddedRoom), Garbage}
          [] c = "B" -> {Join(DEFAULT_ROOM)}
          [] c = "C" -> {}]
NextJoin == Serve(JoinLines, {"A", "B"}, MaxCheckLines)
SpecJoin == Running(Greeted, {"A", "B"}) /\ [][NextJoin]_vars

\* the room field of the join being handled, as it was sent
SentRoom == Get(Head(events).msg, "room", None)

\* C22 as stated: a join of a connection without a name is answered with
\* "Send hello first", and a join whose room name is empty or longer than 40
\* characters with "Invalid room name"; nothing else is sent and no registry
\* changes
C22_JoinRefused ==
    [][\A c \in Conns : Handling(c, "join") =>
          /\ c_name[c] = None => AnsweredOnly(c, Err("Send hello first"))
          /\ c_name[c] # None /\ (SentRoom = <<>> \/ StrLen(SentRoom) > MaxRoomLen)
                => AnsweredOnly(c, Err("Invalid room name"))]_vars

\* C22, amended: the same with the room name taken without the whitespace
\* around it
C22_JoinRefusedStripped ==
    [][\A c \in Conns : Handling(c, "join") =>
          /\ c_name[c] = None => AnsweredOnly(c, Err("Send hello first"))
          /\ c_name[c] # None /\ (AskedRoom = <<>> \/ StrLen(AskedRoom) > MaxRoomLen)
                => AnsweredOnly(c, Err("Invalid room name"))]_vars

\* B, without a name, and A, with a room name that is too long or empty, have
\* both been refused, and A is where it was
C22_Witness ==
    /\ out_q["B"] = <<Err("Send hello first")>>
    /\ out_q["A"] = <<Err("Invalid room name")>>
    /\ c_room = Greeted.room /\ rooms = Greeted.rooms
    /\ sent = 2 /\ events = <<>> /\ disp = Idle

\* ------------------------------------------------------------ names (C1, C10)
PaddedA == Run(" ", 1) \o NameA
MaxNameLines == 3
NameLines ==
    [c \in Conns |-> IF c = "A" THEN {Hello(NameA), Hello(NameB)}
                                ELSE {Hello(NameA), Hello(PaddedA)}]

NextNames ==
    \/ Serve(NameLines, {"A", "B"}, MaxNameLines)
    \/ Closing({"B"})
SpecNames == Accepted({"A", "B"}) /\ [][NextNames]_vars

\* C1 as stated: once a connection holds a name, the name stays its own, and
\* every hello of another connection for it is refused, for as long as the
\* holder has not disconnected
C1_HeldUntilDisconnect ==
    [][\A a \in Conns : \A n \in DOMAIN clients_by_name :
          Holds(a, n) /\ st'[a] # "closed" => HoldsNext(a, n)]_vars

\* C1 amended: while a connection holds a name in the registry, a hello for
\* that name from any other connection is answered with "Name already taken"
\* and changes neither a name nor the registry; the entry goes away only by a
\* hello of its holder or by the holder's cleanup; after the cleanup of a
\* connection the registry holds no entry for it; and a hello with a valid
\* name that no other connection holds gives its sender the name
C1_NameTakenWhileHeld ==
    [][/\ \A b \in Conns : Handling(b, "hello") =>
            LET n == Strip(Get(Head(events).msg, "name", None)) IN
            (\E a \in Conns \ {b} : Holds(a, n))
                => AnsweredOnly(b, Err("Name already taken"))
       /\ \A a \in Conns : \A n \in DOMAIN clients_by_name :
            Holds(a, n) /\ ~HoldsNext(a, n)
                => Handling(a, "hello") \/ (st[a] = "open" /\ st'[a] = "closed")
       /\ \A a \in Conns : st[a] = "open" /\ st'[a] = "closed"
            => \A n \in DOMAIN clients_by_name' : ~HoldsNext(a, n)
       /\ \A b \in Conns : Handling(b, "hello") =>
            LET n == Strip(Get(Head(events).msg, "name", None)) IN
            /\ n # <<>> /\ StrLen(n) <= MaxNameLen /\ ~HasSpace(n)
            /\ \A a \in Conns \ {b} : ~Holds(a, n)
            => HoldsNext(b, n) /\ c_name'[b] = n]_vars

\* A holds the name and B, who asked for it padded with a blank, was refused
C1_Witness ==
    /\ Holds("A", NameA)
    /\ c_name["B"] = None
    /\ \E i \in 1..Len(out_q["B"]) : out_q["B"][i] = Err("Name already taken")

\* C10: every entry name -> connection of the name registry refers to a
\* connection whose name field is that name, and no two connections that have
\* not been cleaned up have the same name
C10_NameRegistry ==
    /\ \A n \in DOMAIN clients_by_name : c_name[clients_by_name[n]] = n
    /\ \A a, b \in Conns :
          a # b /\ st[a] = "open" /\ st[b] = "open" /\ c_name[a] # None
              => c_name[a] # c_name[b]

\* A has renamed itself, B has taken the released name and has been cleaned up
C10_Witness ==
    /\ Holds("A", NameB)
    /\ c_name["B"] = NameA
    /\ st["B"] = "closed"
    /\ NameA \notin DOMAIN clients_by_name

\* ------------------------------------------------ hello refused (C23)
\* names: of 33 characters, with a blank inside, and with a blank in front
LongName == Run("n", MaxNameLen + 1)
SpacedName == NameA \o Run(" ", 1) \o NameB
PaddedB == Run(" ", 1) \o NameB

HelloLines ==
    [c \in Conns |->
        CASE c = "A" -> {Hello(NameB)}
          [] c = "B" -> {Hello(None), Hello(LongName), Hello(SpacedName),
                         Hello(PaddedA), Hello(PaddedB), Garbage}
          [] c = "C" -> {}]
NextHello == Serve(HelloLines, {"A", "B"}, MaxCheckLines)
SpecHello == Running(Greeted, {"A", "B"}) /\ [][NextHello]_vars

\* the name field of the hello being handled, as it was sent, and as
\* _handle_hello takes it
SentName == Get(Head(events).msg, "name", None)
AskedName == Strip(SentName)

InvalidName(n) == n = <<>> \/ StrLen(n) > MaxNameLen \/ HasSpace(n)
HeldByOther(c, n) == \E x \in Conns \ {c} : Holds(x, n)

\* C23 as stated: a hello whose name is empty, longer than 32 characters or
\* contains whitespace is answered with the invalid-name error, and otherwise
\* a hello whose name another connection holds with the name-taken error; in
\* both cases nothing else is sent and the connection's name, its room and the
\* name registry stay as they are
C23_HelloRefused ==
    [][\A c \in Conns : Handling(c, "hello") =>
          /\ InvalidName(SentName)
                => AnsweredOnly(c, Err("Invalid name (max 32 chars, no spaces)"))
          /\ ~InvalidName(SentName) /\ HeldByOther(c, SentName)
                => AnsweredOnly(c, Err("Name already taken"))]_vars

\* C23, amended: the same with the name taken without the whitespace around it
C23_HelloRefusedStripped ==
    [][\A c \in Conns : Handling(c, "hello") =>
          /\ InvalidName(AskedName)
                => AnsweredOnly(c, Err("Invalid name (max 32 chars, no spaces)"))
          /\ ~InvalidName(AskedName) /\ HeldByOther(c, AskedName)
                => AnsweredOnly(c, Err("Name already taken"))]_vars

\* B has asked for a name that is not valid and for the name A holds, and
\* has both errors and no name
C23_Witness ==
    /\ out_q["B"] = <<Err("Invalid name (max 32 chars, no spaces)"),
                      Err("Name already taken")>>
    /\ c_name["B"] = None /\ c_room["B"] = None
    /\ clients_by_name = Greeted.reg
    /\ sent = 2 /\ events = <<>> /\ disp = Idle

\* ------------------------------------------------------- renaming (C24)
\* the names the registry has for connection c, now and after the step
EntriesOf(c) == {n \in DOMAIN clients_by_name : clients_by_name[n] = c}
EntriesOfNext(c) == {n \in DOMAIN clients_by_name' : clients_by_name'[n] = c}

\* C24: a hello with a valid name that no other connection holds gives the
\* connection that name and makes it the connection's only entry in the
\* registry, so the name it held before is free; the entries of the other
\* connections stay; if the connection holds that very name already, the
\* registry, the rooms and the connection's room stay exactly as they are;
\* the connection is told that it is logged in under the name.  No connection
\* ever has two entries
C24_RenameReleases ==
    [][/\ \A c \in Conns :
            Handling(c, "hello") /\ ~InvalidName(AskedName)
                /\ ~HeldByOther(c, AskedName)
            => /\ c_name'[c] = AskedName
               /\ EntriesOfNext(c) = {AskedName}
               /\ \A x \in Conns \ {c} : EntriesOfNext(x) = EntriesOf(x)
               /\ IF Len(out_q[c]) < OutQMax
                  THEN OnlyAdds(c)
                       /\ Added(c)[1] = Info("You are logged in as", AskedName)
                  ELSE Awaited(c, Info("You are logged in as", AskedName))
               /\ Holds(c, AskedName)
                     => UNCHANGED <<clients_by_name, c_name, c_room, rooms>>
       /\ \A c \in Conns : Cardinality(EntriesOfNext(c)) <= 1
    ]_vars

\* A has said hello as a, as b and as b again: it holds b alone and is in the
\* default room, and a is free
C24_Witness ==
    /\ clients_by_name = DictSet(EmptyDict, NameB, "A")
    /\ c_name["A"] = NameB /\ c_room["A"] = DEFAULT_ROOM
    /\ sent = 3 /\ events = <<>> /\ disp = Idle
    /\ \E i \in 1..Len(out_q["A"]) : out_q["A"][i] = Info("You are logged in as", NameB)

\* ------------------------------------------------ the default room (C28)
\* this step is the dispatcher starting on a hello of c that succeeds
HelloSucceeds(c) ==
    Handling(c, "hello") /\ ~InvalidName(AskedName) /\ ~HeldByOther(c, AskedName)

JoinsDefault(c) ==
    /\ c_room'[c] = DEFAULT_ROOM
    /\ c \in MembersNext(DEFAULT_ROOM)

\* C28: a hello that succeeds for a connection without a room puts the
\* connection into the default room as soon as "You are logged in" is in the
\* connection's queue: in the same step, or when the dispatcher, which waits
\* for room in the queue, goes on; a hello that succeeds for a connection with
\* a room changes neither its room nor the room map; and whenever the
\* dispatcher has finished an event, every connection with a name has a room
C28_HelloJoinsDefault ==
    [][/\ \A c \in Conns : HelloSucceeds(c) =>
             IF c_room[c] # None
             THEN UNCHANGED <<c_room, rooms>>
             ELSE IF Len(out_q[c]) < OutQMax
             THEN JoinsDefault(c)
             ELSE UNCHANGED <<c_room, rooms>>
                  /\ disp'.k = [op |-> "autojoin", c |-> c]
       /\ DispatcherGoesOn /\ disp.k.op = "autojoin"
             => IF c_room[disp.k.c] = None
                THEN JoinsDefault(disp.k.c)
                ELSE UNCHANGED <<c_room, rooms>>
       /\ disp' = Idle
             => \A c \in Conns : c_name'[c] # None => c_room'[c] # None
    ]_vars

\* B, whose queue was full of errors when it said hello, has a name and is
\* in the default room; A is in room r as before
C28_Witness ==
    /\ c_name["B"] = NameB /\ c_room["B"] = DEFAULT_ROOM
    /\ DEFAULT_ROOM \in DOMAIN rooms /\ rooms[DEFAULT_ROOM] = {"B"}
    /\ c_room["A"] = RoomR /\ c_name["A"] = NameA
    /\ sent = 3 /\ events = <<>> /\ disp = Idle

\* ----------------------------------------------------- file_start (C25)
\* A and B have said hello and are in the default room; C is connected and
\* has not said hello
Foyer ==
    After(After(Constructed,
        "A", [type |-> "hello", name |-> NameA]),
        "B", [type |-> "hello", name |-> NameB])

FileF == Lit("f")
PaddedF == Lit(" ") \o FileF \o Lit(" ")
LongF == Run("f", MaxFilenameLen + 1)
StartLines ==
    [c \in Conns |->
        CASE c = "A" -> {FileStart(FileF, JNum(4)),
                         FileStart(PaddedF, JFrac(MaxFileSize, 5)),
                         FileStart(LongF, JNum(MaxFileSize)),
                         FileStart(FileF, JNum(MaxFileSize + 1)),
                         FileStart(FileF, JNum(0 - 1)),
                         FileStart(FileF, JStr(Lit("x"))),
                         FileStart(Run(" ", 2), JNum(4)),
                         FileStart(None, JNum(4))}
          [] c = "B" -> {Join(RoomR), Garbage}
          [] c = "C" -> {FileStart(FileF, JNum(4))}]

NextStart == Serve(StartLines, Conns, MaxCheckLines)
SpecStart == Running(Foyer, Conns) /\ [][NextStart]_vars

\* the filename and the size of the file_start at the head of the queue, as
\* they were sent
SentFilename == Get(Head(events).msg, "filename", None)
SentSize == Get(Head(events).msg, "size", JNum(0))

\* the number j, as it was sent, is below zero / above the cap
Negative(j) ==
    IF j.k = "num" THEN j.v < 0
    ELSE IF j.k = "frac" THEN FALSE
    ELSE IntOrZero(j).ok /\ IntOrZero(j).v < 0
AboveCap(j) ==
    IF j.k = "num" THEN j.v > MaxFileSize
    ELSE IF j.k = "frac" THEN j.whole >= MaxFileSize
    ELSE IntOrZero(j).ok /\ IntOrZero(j).v > MaxFileSize

\* x is another member of c's room
RoomMate(c, x) ==
    x # c /\ c_room[c] \in DOMAIN rooms /\ x \in rooms[c_room[c]]

FileAck(fid) == [type |-> "file_ack", id |-> fid]
Announcement(fid, meta) ==
    [type |-> "file_start", id |-> fid, from |-> meta.from,
     room |-> meta.room, filename |-> meta.filename, size |-> meta.size]

\* the file_start of c is refused: an error for c alone, no record, no
\* announcement
StartRefused(c) ==
    /\ Rejected(c)
    /\ \A x \in Conns \ {c} : out_q'[x] = out_q[x]
    /\ UNCHANGED Registries

\* the file_start of c makes the one record meta under a fresh id, c has the
\* file_ack (at once, or the dispatcher waits with it), and once c has it
\* the announcement is offered to every other member of c's room and to
\* nobody else
StartAccepted(c, filename, size) ==
    LET fid == FidOf(nfid + 1)
        meta == [from |-> c_name[c], room |-> c_room[c],
                 filename |-> filename, size |-> size]
    IN  /\ fid \notin DOMAIN files
        /\ files' = DictSet(files, fid, meta)
        /\ UNCHANGED <<c_name, c_room, rooms, clients_by_name>>
        /\ IF Len(out_q[c]) < OutQMax
           THEN /\ out_q'[c] = Append(out_q[c], FileAck(fid))
                /\ \A x \in Conns \ {c} :
                      IF RoomMate(c, x)
                      THEN Offered(x, Announcement(fid, meta))
                      ELSE out_q'[x] = out_q[x]
           ELSE /\ out_q' = out_q
                /\ disp'.at = "put" /\ disp'.target = c
                /\ disp'.payload = FileAck(fid)
                /\ disp'.k = [op |-> "file_start", c |-> c,
                              payload |-> Announcement(fid, meta)]

\* the dispatcher goes on after the file_ack it waited with: the
\* announcement is offered to every other member of the uploader's room
StartAnnounced ==
    DispatcherGoesOn /\ disp.k.op = "file_start" =>
        LET c == disp.k.c IN
        /\ out_q'[c] = Append(out_q[c], disp.payload)
        /\ \A x \in Conns \ {c} :
              IF RoomMate(c, x) THEN Offered(x, disp.k.payload)
              ELSE out_q'[x] = out_q[x]
        /\ UNCHANGED Registries

\* C25 as stated: a file_start is refused with an error, creating no record
\* and announcing nothing, when its sender has no name or no room, when the
\* filename sent is empty, or when the size sent is negative or above the
\* cap; otherwise it creates one record under a fresh id with the uploader,
\* its room, the filename and the size sent, acknowledges the uploader alone
\* and announces the transfer to every other member of the room
C25_FileStart ==
    [][/\ \A c \in Conns : Handling(c, "file_start") =>
              IF \/ c_name[c] = None \/ c_room[c] = None
                 \/ Take(SentFilename, MaxFilenameLen) = <<>>
                 \/ Negative(SentSize) \/ AboveCap(SentSize)
              THEN StartRefused(c)
              ELSE IntOrZero(SentSize).ok
                   /\ StartAccepted(c, Take(SentFilename, MaxFilenameLen),
                                    IntOrZero(SentSize).v)
       /\ StartAnnounced
    ]_vars

\* C25, amended: the filename tested and recorded is the one sent with the
\* whitespace around it stripped, cut to 200 characters, and the size tested
\* and recorded is int(size): a file_start is refused (no record, no
\* announcement, one error for its sender) when its sender has no name or no
\* room, when the stripped filename is empty, when the size has no integer
\* value, or when that integer is negative or above the cap; otherwise the
\* one record is made under a fresh id, the uploader alone has the file_ack
\* and every other member of its room is offered the announcement
C25_FileStartNormalised ==
    [][/\ \A c \in Conns : Handling(c, "file_start") =>
              LET filename == Take(Strip(SentFilename), MaxFilenameLen)
                  size == IntOrZero(SentSize)
              IN  IF \/ c_name[c] = None \/ c_room[c] = None
                     \/ filename = <<>>
                     \/ ~size.ok \/ size.v < 0 \/ size.v > MaxFileSize
                  THEN StartRefused(c)
                  ELSE StartAccepted(c, filename, size.v)
       /\ StartAnnounced
    ]_vars

\* A's file_start with the padded filename and the size cap + 0.5 made the
\* record (a, lobby, f, cap): A has the file_ack and B the announcement
C25_Witness ==
    LET meta == [from |-> NameA, room |-> DEFAULT_ROOM, filename |-> FileF,
                 size |-> MaxFileSize]
    IN  /\ DOMAIN files = {FidOf(1)} /\ files[FidOf(1)] = meta
        /\ out_q["A"] = <<FileAck(FidOf(1))>>
        /\ out_q["B"] = <<Announcement(FidOf(1), meta)>>
        /\ out_q["C"] = <<>>

\* --------------------------------------------- life of a transfer (C26)
\* Foyer after A's file_start: the transfer Fid is active
Transfer ==
    After(Foyer, "A", [type |-> "file_start", filename |-> FileF,
                       size |-> JNum(4)])

FileG == Lit("g")
TransferLines ==
    [c \in Conns |->
        CASE c = "A" -> {FileStart(FileG, JNum(1)),
                         FileChunk(Fid, JNum(sent + 1), DataQ),
                         FileEnd(PaddedFid)}
          [] c = "B" -> {Hello(NameA),
                         FileChunk(Fid, JNum(sent + 1), DataQ), FileEnd(Fid)}
          [] c = "C" -> {FileEnd(Fid), Garbage}]

NextTransfer ==
    \/ Serve(TransferLines, Conns, MaxCheckLines)
    \/ Closing({"A"})
SpecTransfer == Running(Transfer, Conns) /\ [][NextTransfer]_vars

\* the id named by the file_chunk or file_end at the head of the queue
AskedFid == Strip(Get(Head(events).msg, "id", None))
\* fid was drawn for a transfer at some time
Drawn(fid) == \E k \in 1..nfid : fid = FidOf(k)
\* c may use the record meta
Owner(c, meta) == meta.from = c_name[c] /\ meta.room = c_room[c]
FileEndEvent(fid, from) == [type |-> "file_end", id |-> fid, from |-> from]

\* the file_start of c passes the checks of _handle_file
StartValid(c) ==
    /\ c_name[c] # None /\ c_room[c] # None
    /\ Take(Strip(SentFilename), MaxFilenameLen) # <<>>
    /\ IntOrZero(SentSize).ok
    /\ IntOrZero(SentSize).v >= 0 /\ IntOrZero(SentSize).v <= MaxFileSize

\* the file_end of c passes the checks of _handle_file
EndValid(c) ==
    /\ c_name[c] # None /\ c_room[c] # None
    /\ AskedFid \in DOMAIN files
    /\ Owner(c, files[AskedFid])

\* C26: the record of an id appears only when the dispatcher handles a
\* file_start that passes the checks, under an id never drawn before; it
\* disappears only when the dispatcher handles a file_end for it that passes
\* the checks, and that file_end is relayed to the other members of the room
\* and to nobody else; while it is there it never changes, and a file_chunk
\* changes no record at all; a file_chunk or file_end for an id that was
\* drawn and has no record is answered with an error for its sender alone
\* ("Unknown file id" when the sender has a name and a room) and changes
\* nothing else
C26_TransferLife ==
    [][/\ \A fid \in DOMAIN files' \ DOMAIN files :
              /\ ~Drawn(fid) /\ fid = FidOf(nfid') /\ nfid' = nfid + 1
              /\ \E c \in Conns : Handling(c, "file_start") /\ StartValid(c)
       /\ \A fid \in DOMAIN files \ DOMAIN files' :
              \E c \in Conns :
                  Handling(c, "file_end") /\ EndValid(c) /\ AskedFid = fid
       /\ \A fid \in DOMAIN files \cap DOMAIN files' :
              files'[fid] = files[fid]
       /\ nfid' >= nfid
       /\ \A c \in Conns :
             /\ Handling(c, "file_chunk") => files' = files
             /\ Handling(c, "file_end") /\ EndValid(c) =>
                   /\ files' = DictDel(files, AskedFid)
                   /\ out_q'[c] = out_q[c]
                   /\ \A x \in Conns \ {c} :
                         IF RoomMate(c, x)
                         THEN Offered(x, FileEndEvent(AskedFid, c_name[c]))
                         ELSE out_q'[x] = out_q[x]
             /\ /\ Handling(c, "file_chunk") \/ Handling(c, "file_end")
                /\ Drawn(AskedFid) /\ AskedFid \notin DOMAIN files
                => /\ StartRefused(c)
                   /\ c_name[c] # None /\ c_room[c] # None
                         => AnsweredOnly(c, Err("Unknown file id"))
    ]_vars

\* A has ended its transfer and then sent a chunk for it: no record is
\* left, B has the file_end and A the error
C26_Witness ==
    /\ files = EmptyDict /\ nfid = 1
    /\ out_q["A"] = <<Err("Unknown file id")>>
    /\ out_q["B"] = <<FileEndEvent(Fid, NameA)>>
    /\ out_q["C"] = <<>>
    /\ sent = 2 /\ events = <<>>

\* ------------------------------------------------ oversize lines (C27)
\* the line sent after LongAt others is too long: one byte more than
\* MAX_LINE_BYTES, which readline() returns, or more than the stream limit,
\* at which readline() raises; the other lines are of ordinary length
MaxLongLines == 4
LongAt == MaxLongLines - 2
LongLines ==
    [c \in Conns |->
        IF c = "C" THEN {}
        ELSE IF sent = LongAt THEN {TooLong, OverLimit}
        ELSE {Msg(TextX), Garbage}]

\* the handler of a connection whose wait for a task has returned
Returning(CS) == \E c \in CS : Cleanup(c)

NextLong ==
    \/ Serve(LongLines, {"A", "B"}, MaxLongLines)
    \/ Returning({"A", "B"})
\* every task that can run does run: the writer, the reader that waits for
\* room in the queue, and the handler whose wait for a task has returned
SpecLong ==
    /\ Running(Foyer, {"A", "B"})
    /\ [][NextLong]_vars
    /\ \A c \in {"A", "B"} :
          WF_vars(Write(c)) /\ WF_vars(ReaderResume(c)) /\ WF_vars(Cleanup(c))

TooLongError == Err("Message is too long")

\* the reader of c has read its last line: it has returned, or it waits to
\* put the error for the line that was too long and returns after that
ReaderOver(c) ==
    \/ rd[c] = TaskDone
    \/ rd[c] = [at |-> "put", payload |-> TooLongError, then |-> "return"]
ReaderOverNext(c) ==
    \/ rd'[c] = TaskDone
    \/ rd'[c] = [at |-> "put", payload |-> TooLongError, then |-> "return"]

\* this step puts an event of c on the events queue
Submits(c) ==
    \E i \in 1..Len(events') :
        /\ events'[i].client = c
        /\ events' = Append(events, events'[i])

LongText == Run("x", MaxTextLen + 1)
MsgLines ==
    [c \in Conns |->
        CASE c = "A" -> {Msg(None), Msg(Lit("\n")), Msg(Run(" ", 2)),
                         Msg(LongText), Msg(TextX)}
          [] c = "B" -> {Garbage}
          [] c = "C" -> {}]

NextMsg == Serve(MsgLines, {"A", "B"}, MaxCheckLines)
SpecMsg == Running(Foyer, {"A", "B"}) /\ [][NextMsg]_vars

\* the text of the msg at the head of the queue, as _handle_msg trims it
AskedText == RStripNL(Get(Head(events).msg, "text", None))

\* C29: when the dispatcher handles a msg of a named connection that is in a
\* room and the text, with the newlines at its end trimmed, is empty or
\* longer than 2000 characters, the sender is answered with an error, no
\* other connection is sent anything and no registry changes
C29_BadTextRejected ==
    [][\A c \in Conns :
          /\ Handling(c, "msg") /\ c_name[c] # None /\ c_room[c] # None
          /\ AskedText = <<>> \/ StrLen(AskedText) > MaxTextLen
          => StartRefused(c)
    ]_vars

\* ------------------------------------------------- unknown types (C30)
KnownTypes ==
    {"hello", "join", "msg", "pm", "list_rooms", "list_users",
     "file_start", "file_chunk", "file_end"}

\* events of a type the dispatcher does not know, one of them a hello in
\* capitals, and C, which has no name, sending one too
TypeLines ==
    [c \in Conns |->
        CASE c = "A" -> {Object([type |-> "bogus"]),
                         Object([type |-> "HELLO", name |-> NameB]),
                         Object([type |-> "leave", room |-> RoomR]),
                         Msg(TextX)}
          [] c = "B" -> {Object([type |-> "null"]), Garbage}
          [] c = "C" -> {Object([type |-> "bogus"])}]

NextType == Serve(TypeLines, Conns, MaxCheckLines)
SpecType == Running(Foyer, Conns) /\ [][NextType]_vars

UnknownType(t) == ErrArg("Unknown type=", Lit(t))

\* C30: when the dispatcher handles an event of c whose type is none of the
\* nine known ones, the one error "Unknown type=<type>" is put on c's queue
\* (at once, or the dispatcher waits with it for room and then puts it and
\* nothing else), no other queue is touched and no registry changes
C30_UnknownType ==
    [][/\ \A c \in Conns :
             /\ disp = Idle /\ events # <<>> /\ events' = Tail(events)
             /\ Head(events).client = c
             /\ Head(events).msg.type \notin KnownTypes
             => /\ AnsweredOnly(c, UnknownType(Head(events).msg.type))
                /\ Len(out_q'[c]) < Len(out_q[c]) + 1 => disp'.k = End
       /\ /\ DispatcherGoesOn
          /\ \E t \in {"bogus", "HELLO", "leave", "null"} :
                disp.payload = UnknownType(t)
          => /\ out_q' = [out_q EXCEPT ![disp.target] = Append(@, disp.payload)]
             /\ disp' = Idle
             /\ UNCHANGED Registries
    ]_vars

\* A, B and C have each sent an event of an unknown type and each has the
\* one error for its own
C30_Witness ==
    /\ out_q["A"] = <<UnknownType("HELLO")>>
    /\ out_q["B"] = <<UnknownType("null")>>
    /\ out_q["C"] = <<UnknownType("bogus")>>
    /\ events = <<>> /\ sent = 3
    /\ c_name = [c \in Conns |-> IF c = "C" THEN None
                                  ELSE IF c = "A" THEN NameA ELSE NameB]

\* ------------------------------------------- pm to nobody (C31)
\* A sends pms to C's name and to a name that nobody ever had; C says hello
\* again and may go away
PmLines ==
    [c \in Conns |->
        CASE c = "A" -> {Pm(NameC, TextX), Pm(NameD, TextX)}
          [] c = "B" -> {Garbage}
          [] c = "C" -> {Hello(NameC)}]

NextPm ==
    \/ Serve(PmLines, Conns, MaxCheckLines)
    \/ Closing({"C"})
SpecPm == Running(Lounge, Conns) /\ [][NextPm]_vars

\* the addressee of the pm at the head of the queue, as _handle_pm reads it
AskedTo == Strip(Get(Head(events).msg, "to", None))
UserNotFound(to) == ErrArg("User not found", to)

\* C31: when the dispatcher handles a pm with an addressee and a text, sent
\* by a named connection, and no connection that has not been cleaned up
\* holds the addressee's name, the sender is answered with the error "User
\* <to> not found", nothing is put on any other queue and no registry changes
C31_PmToNobody ==
    [][\A a \in Conns :
          /\ Handling(a, "pm") /\ c_name[a] # None
          /\ AskedTo # <<>>
          /\ RStripNL(Get(Head(events).msg, "text", None)) # <<>>
          /\ ~\E b \in Conns : st[b] = "open" /\ Holds(b, AskedTo)
          => AnsweredOnly(a, UserNotFound(AskedTo))
    ]_vars

\* ------------------------------------------------- one broadcast (C32)
\* the handlers that return after one call of _broadcast: msg (nobody left
\* out), file_chunk and file_end (the uploader left out); A has a transfer,
\* B may move to another room, C comes into the lobby by its hello, and B
\* may stop reading so that its queue fills
CastLines ==
    [c \in Conns |->
        CASE c = "A" -> {Msg(TextX), FileChunk(Fid, JNum(1), DataQ),
                         FileEnd(Fid)}
          [] c = "B" -> {Msg(TextY), Join(RoomR)}
          [] c = "C" -> {Hello(NameC), Garbage}]

NextCast ==
    \/ Serve(CastLines, Conns, MaxCheckLines)
    \/ Stalling({"B"})
SpecCast == Running(Transfer, Conns) /\ [][NextCast]_vars

\* one call _broadcast(R, ev, exclude = X): ev is appended once to the queue
\* of every member of R other than X that has room for it, and every other
\* queue stays as it is
Cast(R, ev, X) ==
    \A x \in Conns :
        out_q'[x] =
            IF /\ R \in DOMAIN rooms /\ x \in rooms[R] /\ x # X
               /\ Len(out_q[x]) < OutQMax
            THEN Append(out_q[x], ev)
            ELSE out_q[x]

\* C32: in each step in which a handler makes its one call of _broadcast for
\* room R leaving out X, the event is enqueued exactly once on every member
\* of R, as the room map has it when the handler runs, other than X, whose
\* queue has space; nothing is enqueued on X, on a connection that is no
\* member of R, or on a member whose queue is full
C32_BroadcastOnce ==
    [][\A a \in Conns :
          /\ /\ Handling(a, "msg") /\ c_name[a] # None /\ c_room[a] # None
             /\ AskedText # <<>> /\ StrLen(AskedText) <= MaxTextLen
             => Cast(c_room[a], MsgEvent(c_room[a], c_name[a], AskedText),
                     NoConn)
          /\ Handling(a, "file_chunk") /\ ChunkPasses(a)
             => Cast(c_room[a],
                     ChunkEvent(AskedFid, SeqAsInt(Head(events).msg.seq),
                                Head(events).msg.data.s, c_name[a]), a)
          /\ Handling(a, "file_end") /\ EndValid(a)
             => Cast(c_room[a], FileEndEvent(AskedFid, c_name[a]), a)
    ]_vars

\* B does not read and its queue is full; A's msg is on A's and C's queues,
\* B was skipped
C32_Witness ==
    LET ev == MsgEvent(DEFAULT_ROOM, NameA, TextX) IN
    /\ rooms[DEFAULT_ROOM] = {"A", "B", "C"}
    /\ peer["B"] = "stalled" /\ Len(out_q["B"]) = OutQMax
    /\ \A i \in 1..Len(out_q["B"]) : out_q["B"][i] # ev
    /\ out_q["A"] # <<>> /\ out_q["A"][Len(out_q["A"])] = ev
    /\ out_q["C"] # <<>> /\ out_q["C"][Len(out_q["C"])] = ev

\* --------------------------------------------- events queue full (C33)
\* every line decodes, so that a line read with the events queue full is a
\* newly decoded event
MaxFullLines == 6
FullLines ==
    [c \in Conns |->
        CASE c = "A" -> {Msg(TextX)}
          [] c = "B" -> {ListRooms}
          [] c = "C" -> {}]

NextFull == Serve(FullLines, {"A", "B"}, MaxFullLines)
SpecFull == Running(Foyer, {"A", "B"}) /\ [][NextFull]_vars

Overloaded == Err("Server overloaded (events queue)")
WaitsToReport == [at |-> "put", payload |-> Overloaded, then |-> "loop"]

\* C33: a line read while the events queue is full leaves the queue as it
\* is; its reader puts the overload error on the queue of its own connection
\* and is at readline() again, or, that queue being full, waits to put it;
\* the reader that waited puts the error and is at readline() again; no
\* other queue is touched
C33_EventsFull ==
    [][/\ sent' = sent + 1 /\ Len(events) >= EventsMax =>
              /\ events' = events
              /\ \E c \in Conns :
                    /\ rd[c] = AtReadline
                    /\ \A x \in Conns \ {c} : out_q'[x] = out_q[x]
                    /\ IF Len(out_q[c]) < OutQMax
                       THEN /\ out_q'[c] = Append(out_q[c], Overloaded)
                            /\ rd'[c] = AtReadline
                       ELSE /\ out_q'[c] = out_q[c]
                            /\ rd'[c] = WaitsToReport
       /\ \A c \in Conns : rd[c] = WaitsToReport /\ rd'[c] # rd[c] =>
              /\ rd'[c] = AtReadline
              /\ out_q' = [out_q EXCEPT ![c] = Append(@, Overloaded)]
              /\ events' = events
    ]_vars

\* the queue is full with three events; A's fourth line was answered with
\* the overload error and A's reader is at readline()
C33_Witness ==
    /\ Len(events) = EventsMax
    /\ sent = EventsMax + 1
    /\ out_q["A"] = <<Overloaded>>
    /\ rd["A"] = AtReadline

\* --------------------------------------------- orphaned records (C34)
\* this step is the cleanup of connection c
CleansUp(c) == st[c] = "open" /\ st'[c] = "closed"

\* C34: the cleanup of a connection leaves the transfer registry as it is,
\* and a record leaves the registry only when the server is stopped or when
\* the dispatcher handles a file_end for its id sent by the connection that
\* started the transfer
C34_OrphansStay ==
    [][/\ \A c \in Conns : CleansUp(c) => files' = files
       /\ \A fid \in DOMAIN files \ DOMAIN files' :
             \/ srv'.at = "stopped"
             \/ \E c \in Conns :
                   /\ Handling(c, "file_end") /\ AskedFid = fid
                   /\ started_by[fid] = c
    ]_vars

\* ------------------------------------------------------ queries (C35)
\* names that sort before and between the ones in use: "Q" < "a" < "b" and
\* "a" < "lobby" < "r"
NameQ == Lit("Q")
ListLines ==
    [c \in Conns |->
        CASE c = "A" -> {ListRooms, ListUsers, Join(RoomR)}
          [] c = "B" -> {ListUsers, Join(NameA), Garbage}
          [] c = "C" -> {ListRooms, ListUsers, Hello(NameQ)}]

NextList == Serve(ListLines, Conns, MaxCheckLines)
SpecList == Running(Foyer, Conns) /\ [][NextList]_vars

\* the event that this step puts on c's queue, or has the dispatcher wait with
Answer(c) ==
    IF Len(out_q[c]) < OutQMax THEN out_q'[c][Len(out_q'[c])]
    ELSE disp'.payload

\* xs is in ascending order, equal neighbours allowed
Ascending(xs) == \A i, j \in 1..Len(xs) : i < j => ~StrLess(xs[j], xs[i])
\* how often x occurs in xs
Count(xs, x) == Cardinality({i \in 1..Len(xs) : xs[i] = x})

\* C35: list_rooms is answered, for any caller, named or not, with the keys
\* of the room map, each once, in ascending order; list_users is answered
\* with the names of the members of the caller's room, each as often as
\* members have it, in ascending order, and with an empty list when the
\* caller has no room; the answer is for the caller alone and no registry
\* changes
C35_Queries ==
    [][\A c \in Conns :
          /\ Handling(c, "list_rooms") =>
                /\ AnsweredOnly(c, Answer(c))
                /\ Answer(c).type = "room_list"
                /\ Ascending(Answer(c).rooms)
                /\ Len(Answer(c).rooms) = Cardinality(DOMAIN rooms)
                /\ \A r \in DOMAIN rooms : Count(Answer(c).rooms, r) = 1
          /\ Handling(c, "list_users") =>
                /\ AnsweredOnly(c, Answer(c))
                /\ Answer(c).type = "user_list"
                /\ IF c_room[c] = None THEN Answer(c).users = <<>>
                   ELSE LET members == IF c_room[c] \in DOMAIN rooms
                                       THEN rooms[c_room[c]] ELSE {}
                            users == Answer(c).users
                        IN  /\ Answer(c).room = c_room[c]
                            /\ Ascending(users)
                            /\ Len(users) = Cardinality(members)
                            /\ \A x \in members :
                                  Count(users, c_name[x]) =
                                     Cardinality({y \in members :
                                                    c_name[y] = c_name[x]})
    ]_vars

\* C has come into the lobby as Q and A's list_users was answered with Q, a
\* and b in that order
C35_Witness ==
    /\ c_name["C"] = NameQ
    /\ out_q["A"] # <<>>
    /\ out_q["A"][Len(out_q["A"])] =
          [type |-> "user_list", room |-> DEFAULT_ROOM,
           users |-> <<NameQ, NameA, NameB>>]

\* -------------------------------------------------- no empty room (C36)
\* C36: wherever the tasks can be, at a suspension point or between two
\* events, every key of the room map has at least one member
C36_NoEmptyRoom == \A r \in DOMAIN rooms : rooms[r] # {}

\* C, the only member of room r, has moved to the lobby and room r is gone
C36_Witness ==
    /\ c_room["C"] = DEFAULT_ROOM
    /\ DOMAIN rooms = {DEFAULT_ROOM}
    /\ rooms[DEFAULT_ROOM] = {"A", "B", "C"}
    /\ st["C"] = "open"

\* ------------------------------------- room field and room map (C37)
\* c is in the member set of room R
MemberOf(c, R) == R \in DOMAIN rooms /\ c \in rooms[R]

\* C37: a connection that has not been cleaned up is in the member set of a
\* room exactly when that room is its room field, and if its room field is
\* set its name is set
C37_RoomFieldIsMembership ==
    \A c \in Conns : st[c] # "closed" =>
        /\ \A R \in DOMAIN rooms \cup ({c_room[c]} \ {None}) :
              MemberOf(c, R) <=> c_room[c] = R
        /\ c_room[c] # None => c_name[c] # None

\* A has moved from the lobby, where B still is, to room r
C37_Witness ==
    /\ st["A"] = "open" /\ c_room["A"] = RoomR
    /\ MemberOf("A", RoomR) /\ ~MemberOf("A", DEFAULT_ROOM)
    /\ MemberOf("B", DEFAULT_ROOM)

\* ---------------------------------- events of a closed connection (C38)
\* C38: when the dispatcher handles an event of a connection that has been
\* cleaned up, nothing is put on the queue of any other connection
C38_StaleEventsSilent ==
    [][\A c \in Conns :
          /\ st[c] = "closed"
          /\ disp = Idle /\ events # <<>> /\ events' = Tail(events)
          /\ Head(events).client = c
          => \A x \in Conns \ {c} : out_q'[x] = out_q[x]
    ]_vars

\* ------------------------------------------- what changes what (C39)
\* events of every type, some of them answered with an error: B's hello
\* with A's name, C's join before its hello
FrameLines ==
    [c \in Conns |->
        CASE c = "A" -> {Msg(TextX), Pm(NameB, TextX),
                         FileChunk(Fid, JNum(1), DataQ), FileEnd(Fid)}
          [] c = "B" -> {ListRooms, ListUsers, Hello(NameA),
                         FileStart(FileG, JNum(1))}
          [] c = "C" -> {Hello(NameC), Join(RoomR), Garbage}]

NextFrame ==
    \/ Serve(FrameLines, Conns, MaxLines)
    \/ Closing({"C"})
SpecFrame == Running(Transfer, Conns) /\ [][NextFrame]_vars

\* this step is the dispatcher taking an event of c off the queue
Takes(c) ==
    /\ disp = Idle /\ events # <<>> /\ events' = Tail(events)
    /\ Head(events).client = c

\* C39: a step in which the dispatcher handles a msg, a pm, a list_rooms, a
\* list_users or a file_chunk, and a step in which it answers an event with
\* an error, leave the names, the rooms, the room map, the name registry and
\* the transfer registry as they are; a step that changes one of them is the
\* handling of a hello, a join, a file_start or a file_end that is not
\* answered with an error (or that hello going on after its answer), the
\* cleanup of a connection, or a step of the shutdown
C39_Frame ==
    [][/\ \A c \in Conns :
             /\ \A t \in {"msg", "pm", "list_rooms", "list_users", "file_chunk"} :
                   Handling(c, t) => UNCHANGED Registries
             /\ Takes(c) /\ Rejected(c) => UNCHANGED Registries
       /\ DispatcherGoesOn /\ disp.k.op # "autojoin" => UNCHANGED Registries
       /\ ~UNCHANGED Registries =>
             \/ \E c \in Conns :
                   /\ Takes(c) /\ ~Rejected(c)
                   /\ Head(events).msg.type \in
                         {"hello", "join", "file_start", "file_end"}
             \/ DispatcherGoesOn /\ disp.k.op = "autojoin"
             \/ \E c \in Conns : CleansUp(c)
             \/ srv' # srv
    ]_vars

\* B's hello with A's name was answered with an error and A's msg went to
\* the lobby: names, rooms and the transfer are what they were
C39_Witness ==
    /\ out_q["B"] = <<Err("Name already taken"),
                      MsgEvent(DEFAULT_ROOM, NameA, TextX)>>
    /\ c_name["A"] = NameA /\ c_name["B"] = NameB /\ c_name["C"] = None
    /\ Holds("A", NameA) /\ Holds("B", NameB)
    /\ rooms[DEFAULT_ROOM] = {"A", "B"}
    /\ DOMAIN files = {Fid}

\* ------------------------------------------- the order on the wire (C40)
\* this step is the reader of c writing "Incoming line exceeds server read
\* limit" to the connection itself, by safe_send, and returning
ReaderWritesDirect(c) ==
    /\ rd[c] = AtReadline /\ rd'[c] = TaskDone
    /\ sent' = sent + 1
    /\ out_q'[c] = out_q[c]

\* after this step the writer of c runs and has an event to write
WriterHasMore(c) ==
    /\ st'[c] = "open" /\ wr'[c] = AtGet /\ peer'[c] = "up"
    /\ out_q'[c] # <<>>

\* C40: what a connection receives is in the order in which it was produced
\* for it: when the reader writes an error to the connection itself, nothing
\* that was enqueued for the connection before is still to be written after it
C40_WireOrder ==
    [][\A c \in Conns : ReaderWritesDirect(c) => ~WriterHasMore(c)]_vars

====
